---- MODULE Spec2Model ----
(***************************************************************************)
(* Verification model of the Coastal Threat ML service.                    *)
(*                                                                         *)
(*   src/backend/ml-service/app.py         class CoastalThreatML, the      *)
(*                                         Flask routes and the risk       *)
(*                                         aggregation helpers             *)
(*   src/ml-service/utils/model_persistence.py   the model registry        *)
(*   src/ml-service/app.py                 the tide prediction service     *)
(*                                                                         *)
(* Water levels are integers in units of 0.1 m (the code rounds to 0.001 m *)
(* and compares against 0.8, 1.2, 1.5 and 2.0 m).                          *)
(*                                                                         *)
(* A fitted object is written Fit(k): k is the number of the training run  *)
(* that fitted it, so that two objects were co-trained iff their k agree.  *)
(***************************************************************************)
EXTENDS Integers, Naturals, Sequences, FiniteSets, TLC

VARIABLES
    \* ---- CoastalThreatML (app.py:45-57) and its models/ directory
    models,             \* self.models: sensor type -> Prophet object
    anomaly_detector,   \* self.anomaly_detector
    scaler,             \* self.scaler
    threat_classifier,  \* self.threat_classifier
    classifier_scaler,  \* self.classifier_scaler
    disk,               \* the *.pkl files under self.model_path
    runCount,           \* training runs started so far (numbers the runs)
    result,             \* what the last service call returned or raised
    \* ---- the risk pipeline as pure functions
    predictions,        \* argument of _calculate_flood_risk
    flood_risk,         \* its result
    additional_factors, \* second argument of _calculate_overall_risk
    overall_risk,       \* its result
    \* ---- request threads of the /train route
    pc,                 \* thread -> position in train_models
    run,                \* thread -> number of the run it executes
    \* ---- the registry directory of model_persistence.py
    directory,          \* model file name -> age in days of its created_at
    cleanup,            \* what the last cleanup_old_models call did
    \* ---- one artifact path of model_persistence.py
    store,              \* the model file, its .info.json, the path's extension
    saving,             \* the save_model call in progress, if any
    observed,           \* what the last registry call on the path returned
    \* ---- the tide prediction service (src/ml-service/app.py)
    tide_dir,           \* its models/ directory: name -> state of name.joblib
    tide_models,        \* the module's global models: names of loaded models
    tide_task           \* the background task of /models/reload

svcVars == <<models, anomaly_detector, scaler, threat_classifier,
             classifier_scaler, disk, runCount, result>>
riskVars == <<predictions, flood_risk, additional_factors, overall_risk>>
thrVars == <<pc, run>>
fileVars == <<store, saving, observed>>
tideVars == <<tide_dir, tide_models, tide_task>>
regVars == <<directory, cleanup, fileVars, tideVars>>
vars == <<svcVars, riskVars, thrVars, regVars>>

(***************************************************************************)
(* Bounds of the model.                                                    *)
(***************************************************************************)
MaxLevel == 21      \* largest predicted level enumerated, in 0.1 m
MaxPoints == 2      \* longest forecast handed to the scorer
MaxFactors == 2     \* longest auxiliary factor list

Levels == 0..MaxLevel

RECURSIVE SeqsUpTo(_, _)
SeqsUpTo(S, n) ==
    IF n = 0 THEN {<<>>}
    ELSE LET shorter == SeqsUpTo(S, n - 1)
         IN  shorter \cup {Append(s, x) : s \in {t \in shorter : Len(t) = n - 1}, x \in S}

\* max(values) of a non-empty list
SeqMax(s) ==
    CHOOSE x \in {s[i] : i \in DOMAIN s} : \A i \in DOMAIN s : s[i] <= x

(***************************************************************************)
(* Flood Risk Scorer: CoastalThreatML._calculate_flood_risk                *)
(***************************************************************************)
ThresholdLow == 8
ThresholdMedium == 12
ThresholdHigh == 15
ThresholdCritical == 20

risk_thresholds ==
    [low |-> ThresholdLow, medium |-> ThresholdMedium,
     high |-> ThresholdHigh, critical |-> ThresholdCritical]

\* the scorer with strict comparisons at the thresholds
FloodRiskStrictBoundaries(preds) ==
    IF preds = <<>>
    THEN [risk_level |-> "unknown", confidence |-> 0]
    ELSE LET max_value == SeqMax(preds)
             tier ==
                 IF max_value > risk_thresholds.critical
                 THEN [risk_level |-> "critical", confidence |-> 95]
                 ELSE IF max_value > risk_thresholds.high
                 THEN [risk_level |-> "high", confidence |-> 85]
                 ELSE IF max_value > risk_thresholds.medium
                 THEN [risk_level |-> "medium", confidence |-> 70]
                 ELSE IF max_value > risk_thresholds.low
                 THEN [risk_level |-> "low", confidence |-> 60]
                 ELSE [risk_level |-> "minimal", confidence |-> 90]
         IN  [risk_level |-> tier.risk_level,
              confidence |-> tier.confidence,
              max_predicted_level |-> max_value,
              threshold_exceeded |-> max_value > risk_thresholds.low]

\* the scorer with the low threshold counted as exceeded when it is reached
FloodRiskThresholdReached(preds) ==
    IF preds = <<>>
    THEN [risk_level |-> "unknown", confidence |-> 0]
    ELSE LET max_value == SeqMax(preds)
             tier ==
                 IF max_value >= risk_thresholds.critical
                 THEN [risk_level |-> "critical", confidence |-> 95]
                 ELSE IF max_value >= risk_thresholds.high
                 THEN [risk_level |-> "high", confidence |-> 85]
                 ELSE IF max_value >= risk_thresholds.medium
                 THEN [risk_level |-> "medium", confidence |-> 70]
                 ELSE IF max_value >= risk_thresholds.low
                 THEN [risk_level |-> "low", confidence |-> 60]
                 ELSE [risk_level |-> "minimal", confidence |-> 90]
         IN  [risk_level |-> tier.risk_level,
              confidence |-> tier.confidence,
              max_predicted_level |-> max_value,
              threshold_exceeded |-> max_value >= risk_thresholds.low]

_calculate_flood_risk(preds) ==
    IF preds = <<>>
    THEN [risk_level |-> "unknown", confidence |-> 0]
    ELSE LET max_value == SeqMax(preds)
             tier ==
                 IF max_value >= risk_thresholds.critical
                 THEN [risk_level |-> "critical", confidence |-> 95]
                 ELSE IF max_value >= risk_thresholds.high
                 THEN [risk_level |-> "high", confidence |-> 85]
                 ELSE IF max_value >= risk_thresholds.medium
                 THEN [risk_level |-> "medium", confidence |-> 70]
                 ELSE IF max_value >= risk_thresholds.low
                 THEN [risk_level |-> "low", confidence |-> 60]
                 ELSE [risk_level |-> "minimal", confidence |-> 90]
         IN  [risk_level |-> tier.risk_level,
              confidence |-> tier.confidence,
              max_predicted_level |-> max_value,
              threshold_exceeded |-> max_value > risk_thresholds.low]

(***************************************************************************)
(* Risk Aggregator: _calculate_overall_risk                                *)
(***************************************************************************)
risk_scores == [minimal |-> 1, low |-> 2, medium |-> 3, high |-> 4, critical |-> 5]

\* a lookup that counts a level outside the map as nothing
RiskScoreGetOrZero(level) ==
    IF level \in DOMAIN risk_scores THEN risk_scores[level] ELSE 0

\* risk_scores.get(level, 1)
RiskScoreGet(level) ==
    IF level \in DOMAIN risk_scores THEN risk_scores[level] ELSE 1

\* a loop in which each factor overwrites what the one before it added
LastFactorOnly(base_score, factors) ==
    IF factors = <<>> THEN base_score
    ELSE IF factors[Len(factors)].severity = "high" THEN base_score + 2
    ELSE IF factors[Len(factors)].severity = "medium" THEN base_score + 1
    ELSE base_score

\* the loop "for factor in additional_factors" over the running base_score
RECURSIVE AddFactorScores(_, _)
AddFactorScores(base_score, factors) ==
    IF factors = <<>> THEN base_score
    ELSE LET factor == Head(factors)
             next_score ==
                 IF factor.severity = "high" THEN base_score + 2
                 ELSE IF factor.severity = "medium" THEN base_score + 1
                 ELSE base_score
         IN  AddFactorScores(next_score, Tail(factors))

\* the level cut one step too low: a score of 5 already critical
OverallLevelEarlyCritical(base_score) ==
    IF base_score >= 5 THEN "critical"
    ELSE IF base_score >= 4 THEN "high"
    ELSE IF base_score >= 3 THEN "medium"
    ELSE IF base_score >= 2 THEN "low"
    ELSE "minimal"

OverallLevel(base_score) ==
    IF base_score >= 7 THEN "critical"
    ELSE IF base_score >= 5 THEN "high"
    ELSE IF base_score >= 3 THEN "medium"
    ELSE IF base_score >= 2 THEN "low"
    ELSE "minimal"

_calculate_overall_risk(water_risk, factors) ==
    LET base_score == AddFactorScores(RiskScoreGet(water_risk.risk_level), factors)
    IN  [level |-> OverallLevel(base_score),
         score |-> base_score,
         confidence |-> water_risk.confidence]

(***************************************************************************)
(* The risk pipeline applied to enumerated inputs: a forecast is scored,   *)
(* then its verdict is aggregated with a list of auxiliary factors.        *)
(***************************************************************************)
Forecasts == SeqsUpTo(Levels, MaxPoints)

FactorNames == {"heavy_rainfall", "high_winds"}
Severities == {"high", "medium"}
Factors == [factor : FactorNames, severity : Severities]
FactorLists == SeqsUpTo(Factors, MaxFactors)

PendingFloodRisk == [risk_level |-> "pending", confidence |-> 0]
PendingOverallRisk == [level |-> "pending", score |-> 0, confidence |-> 0]

RiskIdle ==
    /\ predictions = <<>>
    /\ flood_risk = PendingFloodRisk
    /\ additional_factors = <<>>
    /\ overall_risk = PendingOverallRisk

ScoreForecast ==
    /\ flood_risk = PendingFloodRisk
    /\ flood_risk' = _calculate_flood_risk(predictions)
    /\ UNCHANGED <<predictions, additional_factors, overall_risk>>

AggregateRisk ==
    \E factors \in FactorLists :
        /\ flood_risk # PendingFloodRisk
        /\ overall_risk = PendingOverallRisk
        /\ additional_factors' = factors
        /\ overall_risk' = _calculate_overall_risk(flood_risk, factors)
        /\ UNCHANGED <<predictions, flood_risk>>

(***************************************************************************)
(* CoastalThreatML: objects, files and construction                        *)
(***************************************************************************)
MaxRuns == 3        \* training runs per behaviour
MaxSensors == 2     \* sensor types in one train request
MaxBatch == 2       \* readings in one detect request

SensorTypes == {"water_level", "wind", "rainfall"}

NoneObj == [st |-> "none", run |-> 0]   \* None, or a key missing from self.models
NewObj == [st |-> "new", run |-> 0]     \* constructed, never fitted
Fit(k) == [st |-> "fit", run |-> k]     \* fitted by training run k

Absent == [st |-> "absent", run |-> 0]          \* os.path.exists is False
Unreadable == [st |-> "unreadable", run |-> 0]  \* joblib.load raises on it

ProphetFile(sensor_type) ==
    CASE sensor_type = "water_level" -> "water_level_prophet.pkl"
      [] sensor_type = "wind" -> "wind_prophet.pkl"
      [] sensor_type = "rainfall" -> "rainfall_prophet.pkl"

Files ==
    {ProphetFile(s) : s \in SensorTypes}
        \cup {"anomaly_detector.pkl", "scaler.pkl",
              "threat_classifier.pkl", "classifier_scaler.pkl"}

EmptyDisk == [f \in Files |-> Absent]

\* The models/ directory found by the first start of the process: empty, or
\* holding one pickle that joblib cannot load (written by other library
\* versions, or cut short).
InitialDisks == {EmptyDisk} \cup {[EmptyDisk EXCEPT ![f] = Unreadable] : f \in Files}

\* _create_new_models: every model and scaler is a fresh unfitted object
_create_new_models ==
    [models |-> [s \in SensorTypes |-> NewObj],
     anomaly_detector |-> NewObj,
     scaler |-> NewObj,
     threat_classifier |-> NewObj,
     classifier_scaler |-> NewObj]

\* "if os.path.exists(file): x = joblib.load(file)", x keeping its value otherwise
LoadOr(d, file, otherwise) == IF d[file] = Absent THEN otherwise ELSE d[file]

\* _load_models on the fields __init__ has just set (lines 46-50)
_load_models(d) ==
    [models |-> [s \in SensorTypes |-> LoadOr(d, ProphetFile(s), NoneObj)],
     anomaly_detector |-> LoadOr(d, "anomaly_detector.pkl", NoneObj),
     scaler |-> LoadOr(d, "scaler.pkl", NewObj),
     threat_classifier |-> LoadOr(d, "threat_classifier.pkl", NoneObj),
     classifier_scaler |-> LoadOr(d, "classifier_scaler.pkl", NewObj)]

\* _initialize_models: load, or create new models when a load raises; then
\* make sure a classifier object exists
_initialize_models(d) ==
    LET load_raises == \E f \in Files : d[f] = Unreadable
        m == IF load_raises THEN _create_new_models ELSE _load_models(d)
    IN  IF m.threat_classifier = NoneObj
        THEN [m EXCEPT !.threat_classifier = NewObj]
        ELSE m

Memory ==
    [models |-> models,
     anomaly_detector |-> anomaly_detector,
     scaler |-> scaler,
     threat_classifier |-> threat_classifier,
     classifier_scaler |-> classifier_scaler]

SetMemory(m) ==
    /\ models' = m.models
    /\ anomaly_detector' = m.anomaly_detector
    /\ scaler' = m.scaler
    /\ threat_classifier' = m.threat_classifier
    /\ classifier_scaler' = m.classifier_scaler

\* ml_service = CoastalThreatML() at import of the module (line 611)
ServiceInit ==
    /\ disk \in InitialDisks
    /\ models = _initialize_models(disk).models
    /\ anomaly_detector = _initialize_models(disk).anomaly_detector
    /\ scaler = _initialize_models(disk).scaler
    /\ threat_classifier = _initialize_models(disk).threat_classifier
    /\ classifier_scaler = _initialize_models(disk).classifier_scaler
    /\ runCount = 0
    /\ result = [op |-> "startup"]

\* the process is started again on the directory it left behind
Restart ==
    /\ SetMemory(_initialize_models(disk))
    /\ result' = [op |-> "startup"]
    /\ UNCHANGED <<disk, runCount>>

(***************************************************************************)
(* CoastalThreatML.train_models and _train_anomaly_detector                *)
(*                                                                         *)
(* The list of points sent for one sensor type is described by what the    *)
(* code reads of it:                                                       *)
(*   raw      len(data)                                                    *)
(*   columns  the points carry 'timestamp' and 'value'                     *)
(*   clean    len(df) after _prepare_data_for_prophet                      *)
(*   feat     rows with a timestamp and a value (kept by dropna at 246)    *)
(*   finite   no value is +-inf (json reads 1e400 as inf)                  *)
(***************************************************************************)
MinForecastPoints == 10
MinAnomalyPoints == 50

SensorData ==
    [empty |-> [raw |-> 0, columns |-> TRUE, clean |-> 0, feat |-> 0, finite |-> TRUE],
     few |-> [raw |-> MinForecastPoints - 1, columns |-> TRUE,
              clean |-> MinForecastPoints - 1, feat |-> MinForecastPoints - 1,
              finite |-> TRUE],
     min |-> [raw |-> MinForecastPoints, columns |-> TRUE,
              clean |-> MinForecastPoints, feat |-> MinForecastPoints,
              finite |-> TRUE],
     nocols |-> [raw |-> MinForecastPoints, columns |-> FALSE,
                 clean |-> 0, feat |-> 0, finite |-> TRUE],
     dups |-> [raw |-> MinAnomalyPoints, columns |-> TRUE,
               clean |-> MinForecastPoints - 1, feat |-> MinAnomalyPoints,
               finite |-> TRUE],
     gaps |-> [raw |-> MinAnomalyPoints, columns |-> TRUE,
               clean |-> MinAnomalyPoints - 1, feat |-> MinAnomalyPoints - 1,
               finite |-> TRUE],
     full |-> [raw |-> MinAnomalyPoints, columns |-> TRUE,
               clean |-> MinAnomalyPoints, feat |-> MinAnomalyPoints,
               finite |-> TRUE],
     inf |-> [raw |-> MinAnomalyPoints, columns |-> TRUE,
              clean |-> MinAnomalyPoints, feat |-> MinAnomalyPoints,
              finite |-> FALSE]]

\* Requests: the sensor_data dictionary in the order of its keys.  One key
\* may be any of the three sensor types or one the service does not know,
\* with any of the data above; several keys are sensor types with data that
\* trains, fails or fills the anomaly pool.
RequestKeys == SensorTypes \cup {"tide"}
SeveralData == {"min", "nocols", "full"}

TrainRequests ==
    {r \in SeqsUpTo([sensor_type : RequestKeys, data : DOMAIN SensorData], MaxSensors) :
        /\ \A i, j \in DOMAIN r : i # j => r[i].sensor_type # r[j].sensor_type
        /\ Len(r) > 1 => \A i \in DOMAIN r : /\ r[i].sensor_type \in SensorTypes
                                             /\ r[i].data \in SeveralData}

\* One pass of "for sensor_type, data in sensor_data.items()" (lines 170-203)
\* for training run k.  st holds self.models, the directory, the results
\* dictionary's keys and whether an exception left the loop.
TrainOneSensor(st, entry, k) ==
    LET sensor_type == entry.sensor_type
        data == SensorData[entry.data]
    IN  IF sensor_type \notin SensorTypes \/ st.models[sensor_type] = NoneObj
        THEN st                                  \* unknown sensor type: continue
        ELSE IF data.raw = 0
        THEN st                                  \* no data provided: continue
        ELSE IF ~data.columns
        THEN [st EXCEPT !.raised = TRUE]         \* ValueError at line 148
        ELSE IF data.clean < MinForecastPoints
        THEN st                                  \* insufficient data: continue
        ELSE IF st.models[sensor_type].st = "fit"
        THEN [st EXCEPT !.raised = TRUE]         \* Prophet object can only be fit once
        ELSE IF ~data.finite
        THEN [st EXCEPT !.raised = TRUE]         \* Prophet: found infinity in column y
        ELSE [st EXCEPT !.models[sensor_type] = Fit(k),
                        !.disk[ProphetFile(sensor_type)] = Fit(k),
                        !.results = @ \cup {sensor_type}]

RECURSIVE TrainSensors(_, _, _)
TrainSensors(st, sensor_data, k) ==
    IF sensor_data = <<>> \/ st.raised THEN st
    ELSE TrainSensors(TrainOneSensor(st, Head(sensor_data), k), Tail(sensor_data), k)

RECURSIVE SumOver(_, _)
SumOver(sensor_data, field) ==
    IF sensor_data = <<>> THEN 0
    ELSE SensorData[Head(sensor_data).data][field] + SumOver(Tail(sensor_data), field)

\* rows left in X at line 246: rows of an unknown type have type_encoded NaN
KnownRows(sensor_data) ==
    SelectSeq(sensor_data, LAMBDA e : e.sensor_type \in SensorTypes)

\* the pool is large enough when it has more than MinAnomalyPoints rows
PoolTooSmallInclusive(rows) == rows <= MinAnomalyPoints

\* lines 227 and 248: len(...) < 50
PoolTooSmall(rows) == rows < MinAnomalyPoints

\* _train_anomaly_detector for run k on the detector a and scaler sc it finds.
\* fit_raises: IsolationForest.fit raises in this call.  Every exception is
\* caught at line 267 and only logged.
_train_anomaly_detector(a, sc, d, sensor_data, k, fit_raises) ==
    LET unchanged == [anomaly_detector |-> a, scaler |-> sc, disk |-> d]
        rows == KnownRows(sensor_data)
        all_finite == \A i \in DOMAIN rows : SensorData[rows[i].data].finite
    IN  IF PoolTooSmall(SumOver(sensor_data, "raw"))
        THEN unchanged @@ [outcome |-> "skipped"]
        ELSE IF PoolTooSmall(SumOver(rows, "feat"))
        THEN unchanged @@ [outcome |-> "skipped"]
        ELSE IF ~all_finite
        THEN \* StandardScaler.fit resets the scaler, then rejects the input
             [anomaly_detector |-> a, scaler |-> NewObj, disk |-> d,
              outcome |-> "failed"]
        ELSE IF a = NoneObj \/ fit_raises
        THEN \* line 253 has refitted self.scaler in place; line 256 raises
             [anomaly_detector |-> a, scaler |-> Fit(k), disk |-> d,
              outcome |-> "failed"]
        ELSE [anomaly_detector |-> Fit(k), scaler |-> Fit(k),
              disk |-> [d EXCEPT !["anomaly_detector.pkl"] = Fit(k),
                                 !["scaler.pkl"] = Fit(k)],
              outcome |-> "trained"]

\* sensor types of a request that carry at least MinForecastPoints clean,
\* finite points
Eligible(sensor_data) ==
    {sensor_data[i].sensor_type : i \in
        {j \in DOMAIN sensor_data :
            /\ sensor_data[j].sensor_type \in SensorTypes
            /\ SensorData[sensor_data[j].data].columns
            /\ SensorData[sensor_data[j].data].finite
            /\ SensorData[sensor_data[j].data].clean >= MinForecastPoints}}

\* sensor types of a request whose data is well formed but cleans to fewer
\* than MinForecastPoints points
Insufficient(sensor_data) ==
    {sensor_data[i].sensor_type : i \in
        {j \in DOMAIN sensor_data :
            /\ sensor_data[j].sensor_type \in SensorTypes
            /\ SensorData[sensor_data[j].data].columns
            /\ SensorData[sensor_data[j].data].raw > 0
            /\ SensorData[sensor_data[j].data].clean < MinForecastPoints}}

\* POST /train with a dictionary: train_models, whose exception the route
\* turns into a 500 answer
TrainModelsOn(requests) ==
    \E sensor_data \in requests, fit_raises \in BOOLEAN :
        /\ runCount < MaxRuns
        /\ runCount' = runCount + 1
        /\ \E loop \in {TrainSensors([models |-> models, disk |-> disk,
                                       results |-> {}, raised |-> FALSE],
                                      sensor_data, runCount + 1)} :
           \E an \in {IF loop.raised
                      THEN [anomaly_detector |-> anomaly_detector, scaler |-> scaler,
                            disk |-> loop.disk, outcome |-> "not_reached"]
                      ELSE _train_anomaly_detector(anomaly_detector, scaler, loop.disk,
                                                   sensor_data, runCount + 1, fit_raises)} :
               /\ models' = loop.models
               /\ anomaly_detector' = an.anomaly_detector
               /\ scaler' = an.scaler
               /\ disk' = an.disk
               /\ result' = [op |-> "train",
                             status |-> IF loop.raised THEN "error" ELSE "ok",
                             results |-> IF loop.raised THEN {} ELSE loop.results,
                             anomaly |-> an.outcome,
                             eligible |-> Eligible(sensor_data),
                             insufficient |-> Insufficient(sensor_data),
                             pooled |-> SumOver(KnownRows(sensor_data), "feat"),
                             all_eligible |->
                                 /\ sensor_data # <<>>
                                 /\ Cardinality(Eligible(sensor_data)) = Len(sensor_data)]
        /\ UNCHANGED <<threat_classifier, classifier_scaler>>

TrainModels == TrainModelsOn(TrainRequests)

(***************************************************************************)
(* CoastalThreatML.detect_anomalies                                        *)
(*                                                                         *)
(* A reading is described by whether its feature row survives dropna at    *)
(* line 376 (known sensor type, value and timestamp present) and by the    *)
(* decision_function score the fitted IsolationForest gives that row, in   *)
(* units of 0.0001; predict is -1 exactly for negative scores.  A record   *)
(* carries the score rounded to three decimals, that is to a multiple of   *)
(* ten units.                                                              *)
(***************************************************************************)
HighSeverityBelow == -5000

Scores == {-5004, -5000, 10}

\* line 396: round(anomaly_scores[i], 3)
Round3(score) == ((score + 5) \div 10) * 10

\* a check that lets every detector through
DetectorCheckPasses(a) == "pass"

\* line 355, "not self.anomaly_detector or not self.scaler": None is falsy,
\* an unfitted IsolationForest has no estimators_ to take the len() of, a
\* fitted one and any StandardScaler are truthy
DetectorCheck(a) ==
    IF a = NoneObj THEN "ValueError"
    ELSE IF a = NewObj THEN "AttributeError"
    ELSE "pass"
Readings ==
    {[valid |-> FALSE, score |-> 0]} \cup {[valid |-> TRUE, score |-> x] : x \in Scores}
Batches == SeqsUpTo(Readings, MaxBatch)

\* positions in df of the rows of X, in order
RECURSIVE ValidRows(_, _)
ValidRows(sensor_data, i) ==
    IF i > Len(sensor_data) THEN <<>>
    ELSE IF sensor_data[i].valid
    THEN <<i>> \o ValidRows(sensor_data, i + 1)
    ELSE ValidRows(sensor_data, i + 1)

\* "for i, (idx, row) in enumerate(df.iterrows())" (lines 390-400): row is the
\* i-th row of df, anomaly_predictions[i] and anomaly_scores[i] belong to the
\* i-th row of X.
RECURSIVE DetectLoop(_, _, _, _)
DetectLoop(sensor_data, X, i, anomalies) ==
    IF i > Len(sensor_data) THEN [raised |-> FALSE, anomalies |-> anomalies]
    ELSE IF i > Len(X) THEN [raised |-> TRUE, anomalies |-> anomalies] \* IndexError
    ELSE LET anomaly_score == sensor_data[X[i]].score
             found == [row |-> i,
                       scored_row |-> X[i],
                       anomaly_score |-> Round3(anomaly_score),
                       severity |-> IF anomaly_score < HighSeverityBelow
                                    THEN "high" ELSE "medium"]
         IN  DetectLoop(sensor_data, X, i + 1,
                        IF anomaly_score < 0 THEN Append(anomalies, found)
                        ELSE anomalies)

NotApplied == [scaler |-> 0, scorer |-> 0]

detect_anomalies(a, sc, sensor_data) ==
    LET X == ValidRows(sensor_data, 1)
        loop == DetectLoop(sensor_data, X, 1, <<>>)
        answer(status, error, anomalies, applied) ==
            [op |-> "detect", status |-> status, error |-> error,
             anomalies |-> anomalies, applied |-> applied,
             rows |-> Len(sensor_data), valid_rows |-> Len(X)]
    IN  IF DetectorCheck(a) # "pass"
        THEN answer("error", DetectorCheck(a), <<>>, NotApplied)  \* line 356
        ELSE IF sensor_data = <<>>
        THEN answer("ok", "", <<>>, NotApplied)
        ELSE IF Len(X) < 1
        THEN answer("ok", "", <<>>, NotApplied)
        ELSE IF sc = NewObj
        THEN answer("error", "NotFittedError", <<>>, NotApplied)  \* line 382
        ELSE IF loop.raised
        THEN answer("error", "IndexError", <<>>,
                    [scaler |-> sc.run, scorer |-> a.run])
        ELSE answer("ok", "", loop.anomalies,
                    [scaler |-> sc.run, scorer |-> a.run])

\* POST /detect/anomalies with a list
DetectAnomalies ==
    \E sensor_data \in Batches :
        /\ result' = detect_anomalies(anomaly_detector, scaler, sensor_data)
        /\ UNCHANGED <<models, anomaly_detector, scaler, threat_classifier,
                       classifier_scaler, disk, runCount>>

(***************************************************************************)
(* CoastalThreatML.train_threat_classifier and classify_threat_severity    *)
(***************************************************************************)
MinClassifierExamples == 20
SamplesPerLevel == 100

ThreatLevels == {"low", "medium", "high", "critical"}

\* training_data of a request: how many examples, and whether they carry the
\* 'threat_level' column
TrainingData ==
    [none |-> [n |-> 0, labelled |-> TRUE],
     few |-> [n |-> MinClassifierExamples - 1, labelled |-> TRUE],
     fewnolabel |-> [n |-> MinClassifierExamples - 1, labelled |-> FALSE],
     enough |-> [n |-> MinClassifierExamples, labelled |-> TRUE],
     nolabel |-> [n |-> MinClassifierExamples, labelled |-> FALSE]]

\* The state of numpy's global generator: the seed it was started from and how
\* many numbers were drawn since.  When a request arrives it is whatever the
\* process left behind: started from the system's entropy at import (seed 0
\* stands for it), or left by an earlier generation of synthetic data.
NumpySeed == 42
SplitSeed == 42
TreeSeed == 42
FeaturesPerSample == 5
NumpyStates ==
    [seed : {0, NumpySeed},
     drawn : {0, SamplesPerLevel * Cardinality(ThreatLevels) * FeaturesPerSample}]
ImportState == [seed |-> 0, drawn |-> 0]

\* the generator as it is with the call to np.random.seed left out
SeedIgnored(state, seed) == state

\* np.random.seed(seed)
np_random_seed(state, seed) == [seed |-> seed, drawn |-> 0]

\* _generate_synthetic_training_data: SamplesPerLevel samples for each level,
\* drawn from the generator after seeding it; a dataset is described by its
\* size, its samples per level and the stream of numbers it was drawn from
_generate_synthetic_training_data(state) ==
    [n |-> SamplesPerLevel * Cardinality(ThreatLevels),
     labelled |-> TRUE,
     per_level |-> [l \in ThreatLevels |-> SamplesPerLevel],
     drawn_from |-> np_random_seed(state, NumpySeed)]

\* the examples of a request as a dataset
Supplied(training_data) ==
    [n |-> training_data.n, labelled |-> training_data.labelled,
     per_level |-> [l \in ThreatLevels |-> 0],
     drawn_from |-> [seed |-> -1, drawn |-> 0]]

\* train_test_split(X, y, test_size=0.2, random_state=..., stratify=y): the
\* test part has ceil(0.2 n) rows, chosen by the given seed
train_test_split(data, random_state) ==
    [train |-> data.n - ((data.n + 4) \div 5),
     test |-> (data.n + 4) \div 5,
     of |-> data.drawn_from,
     random_state |-> random_state]

\* the share of test rows the fitted tree predicts right is fixed by the rows,
\* their split and the seed of the tree (its other parameters are constants
\* of lines 72-77 and 127-132)
Accuracy(split, tree_random_state) ==
    [split |-> split, tree_random_state |-> tree_random_state]

\* train_threat_classifier for run k on the classifier tc and the scaler cs,
\* with numpy's global generator in the given state
train_threat_classifier(tc, cs, d, training_data, k, np_state) ==
    LET synthetic == training_data.n = 0 \/ training_data.n < MinClassifierExamples
        data == IF synthetic THEN _generate_synthetic_training_data(np_state)
                ELSE Supplied(training_data)
        split == train_test_split(data, SplitSeed)
    IN  IF ~data.labelled
        THEN [threat_classifier |-> tc, classifier_scaler |-> cs, disk |-> d,
              answer |-> [status |-> "error", error |-> "KeyError"]]   \* line 428
        ELSE IF tc = NoneObj
        THEN [threat_classifier |-> tc, classifier_scaler |-> Fit(k), disk |-> d,
              answer |-> [status |-> "error", error |-> "AttributeError"]]
        ELSE [threat_classifier |-> Fit(k), classifier_scaler |-> Fit(k),
              disk |-> [d EXCEPT !["threat_classifier.pkl"] = Fit(k),
                                 !["classifier_scaler.pkl"] = Fit(k)],
              answer |-> [status |-> "trained", error |-> "",
                          synthetic |-> synthetic,
                          dataset |-> data,
                          accuracy |-> Accuracy(split, TreeSeed),
                          training_samples |-> split.train,
                          test_samples |-> split.test]]

\* POST /train/classifier
TrainThreatClassifier ==
    \E c \in DOMAIN TrainingData, np_state \in NumpyStates :
        /\ runCount < MaxRuns
        /\ runCount' = runCount + 1
        /\ LET t == train_threat_classifier(threat_classifier, classifier_scaler,
                                            disk, TrainingData[c], runCount + 1,
                                            np_state)
           IN  /\ threat_classifier' = t.threat_classifier
               /\ classifier_scaler' = t.classifier_scaler
               /\ disk' = t.disk
               /\ result' = [op |-> "train_classifier",
                             status |-> IF t.answer.status = "trained" THEN "ok"
                                        ELSE "error",
                             supplied |-> TrainingData[c].n,
                             answer |-> t.answer]
        /\ UNCHANGED <<models, anomaly_detector, scaler>>

\* Python's truth value of a model object: None is false; a
\* DecisionTreeClassifier or StandardScaler is true, fitted or not
Truthy(obj) == obj # NoneObj

MaxLeaf == 3        \* training samples in the leaf a classification ends in
MinSamplesLeaf == 2

\* the features of lines 475-481 with their defaults; water level in 0.1 m
FeatureNames == {"water_level", "wind_speed", "rainfall", "temperature", "pressure"}
FeatureDefaults ==
    [water_level |-> 5, wind_speed |-> 5, rainfall |-> 0, temperature |-> 25,
     pressure |-> 1013]

\* sensor_conditions of a request: the keys it has and their values.  The
\* values are at and beyond the limits of lines 567-584: two sets of
\* conditions, one beyond every limit and one at every lower limit, each
\* also with one feature changed; and the request without any key.
FeatureValues ==
    [water_level |-> {10, 15, 18}, wind_speed |-> {20, 30, 35},
     rainfall |-> {30, 60, 70}, temperature |-> {22}, pressure |-> {990, 995}]
StormConditions ==
    [water_level |-> 18, wind_speed |-> 35, rainfall |-> 70, temperature |-> 22,
     pressure |-> 990]
CalmConditions ==
    [water_level |-> 10, wind_speed |-> 20, rainfall |-> 30, temperature |-> 22,
     pressure |-> 995]
OneChanged(base) ==
    UNION {{[base EXCEPT ![f] = v] : v \in FeatureValues[f]} : f \in FeatureNames}
NoConditions == [keys |-> {}, values |-> FeatureDefaults]
SensorConditions ==
    {[keys |-> FeatureNames, values |-> v] :
        v \in OneChanged(StormConditions) \cup OneChanged(CalmConditions)}
    \cup {NoConditions}

\* lines 475-481: sensor_conditions.get(feature, default)
InputFeatures(sensor_conditions) ==
    [f \in FeatureNames |->
        IF f \in sensor_conditions.keys THEN sensor_conditions.values[f]
        ELSE FeatureDefaults[f]]

\* an explanation whose water level limits include the limit itself
ExplanationInclusive(features, prediction) ==
    LET water == IF features.water_level >= 15 THEN <<"severe_flooding">>
                 ELSE IF features.water_level >= 10 THEN <<"moderate_flood">>
                 ELSE <<>>
        wind == IF features.wind_speed > 30 THEN <<"extreme_wind">>
                ELSE IF features.wind_speed > 20 THEN <<"high_wind">>
                ELSE <<>>
        rain == IF features.rainfall > 60 THEN <<"heavy_rainfall">>
                ELSE IF features.rainfall > 30 THEN <<"moderate_rainfall">>
                ELSE <<>>
        storm == IF features.pressure < 995 THEN <<"storm_conditions">> ELSE <<>>
        explanations == water \o wind \o rain \o storm
    IN  IF explanations = <<>> THEN <<"normal_conditions">> ELSE explanations

\* lines 563-588: the clauses of the explanation, in the order they are
\* joined with "; "
_get_decision_path_explanation(features, prediction) ==
    LET water == IF features.water_level > 15 THEN <<"severe_flooding">>
                 ELSE IF features.water_level > 10 THEN <<"moderate_flood">>
                 ELSE <<>>
        wind == IF features.wind_speed > 30 THEN <<"extreme_wind">>
                ELSE IF features.wind_speed > 20 THEN <<"high_wind">>
                ELSE <<>>
        rain == IF features.rainfall > 60 THEN <<"heavy_rainfall">>
                ELSE IF features.rainfall > 30 THEN <<"moderate_rainfall">>
                ELSE <<>>
        storm == IF features.pressure < 995 THEN <<"storm_conditions">> ELSE <<>>
        explanations == water \o wind \o rain \o storm
    IN  IF explanations = <<>> THEN <<"normal_conditions">> ELSE explanations

\* The fitted tree sends the scaled features to a leaf; predict_proba is the
\* share of each class among the training samples of that leaf, which holds
\* at least min_samples_leaf samples of any mix of classes.
LeafTotal(leaf) == leaf.low + leaf.medium + leaf.high + leaf.critical

Leaves ==
    {leaf \in [ThreatLevels -> 0..MaxLeaf] :
        LeafTotal(leaf) >= MinSamplesLeaf /\ LeafTotal(leaf) <= MaxLeaf}

\* a leaf whose samples all have one class
PureLeaf == [low |-> MinSamplesLeaf, medium |-> 0, high |-> 0, critical |-> 0]

\* classifier.classes_: the labels in sorted order
Classes == <<"critical", "high", "low", "medium">>

\* line 490, predict: the first class with the largest share
Predict(leaf) ==
    Classes[CHOOSE i \in DOMAIN Classes :
                /\ \A j \in DOMAIN Classes : leaf[Classes[j]] <= leaf[Classes[i]]
                /\ \A j \in 1..(i - 1) : leaf[Classes[j]] < leaf[Classes[i]]]

\* round(count / total, 3), in thousandths
RoundedShare(count, total) == (2000 * count + total) \div (2 * total)

\* lines 497-499: the probability dictionary
Probabilities(leaf) ==
    [cls \in ThreatLevels |-> RoundedShare(leaf[cls], LeafTotal(leaf))]

\* POST /classify/threat-severity with a dictionary of the given conditions
\* that the tree sends to one of the given leaves
ClassifyThreatSeverityOn(conditions, leaves) ==
    \E sensor_conditions \in conditions, leaf \in leaves,
       np_state \in IF Truthy(threat_classifier) /\ Truthy(classifier_scaler)
                    THEN {ImportState} ELSE NumpyStates :
    LET bootstrap == ~Truthy(threat_classifier) \/ ~Truthy(classifier_scaler)  \* line 470
        t == IF bootstrap
             THEN train_threat_classifier(threat_classifier, classifier_scaler, disk,
                                          TrainingData.none, runCount + 1, np_state)
             ELSE [threat_classifier |-> threat_classifier,
                   classifier_scaler |-> classifier_scaler, disk |-> disk,
                   answer |-> [status |-> "trained", error |-> ""]]
        error == IF t.answer.status # "trained" THEN t.answer.error
                 ELSE IF t.classifier_scaler.st # "fit" THEN "NotFittedError"  \* line 487
                 ELSE IF t.threat_classifier.st # "fit" THEN "NotFittedError"  \* line 490
                 ELSE ""
        features == InputFeatures(sensor_conditions)
        call == [op |-> "classify",
                 status |-> IF error = "" THEN "ok" ELSE "error",
                 error |-> error,
                 bootstrapped |-> bootstrap,
                 classifier_was |-> threat_classifier,
                 scaler_was |-> classifier_scaler]
    IN  /\ bootstrap => runCount < MaxRuns
        /\ runCount' = IF bootstrap THEN runCount + 1 ELSE runCount
        /\ threat_classifier' = t.threat_classifier
        /\ classifier_scaler' = t.classifier_scaler
        /\ disk' = t.disk
        /\ result' = IF error # "" THEN call
                     ELSE call @@
                          [predicted_threat_level |-> Predict(leaf),
                           probabilities |-> Probabilities(leaf),
                           input_features |-> features,
                           decision_path |->
                               _get_decision_path_explanation(features, Predict(leaf))]
        /\ UNCHANGED <<models, anomaly_detector, scaler>>

ClassifyThreatSeverity == ClassifyThreatSeverityOn(SensorConditions, Leaves)

(***************************************************************************)
(* CoastalThreatML.predict_water_levels and the forecast routes            *)
(*                                                                         *)
(* Prophet's numbers are not the service's: a fitted model's forecast is   *)
(* drawn from a small family of hourly series that start one hour after    *)
(* the last training timestamp (make_future_dataframe, tail(hours_ahead)). *)
(***************************************************************************)
MaxHorizon == 168
DefaultHorizon == 24

ForecastShapes == [base : {7, 19}, trend : {0, 1}, width : {1},
                   history : {MinForecastPoints}]

\* line 279, make_future_dataframe(periods, freq='H'): the dates of the
\* training history followed by the next periods hours; dates count hours
\* from the last training timestamp, which is date 0
make_future_dataframe(history, periods) ==
    [j \in 1..(history + periods) |-> j - history]

\* line 282, model.predict: one row per date
ProphetPredict(future_dates, shape) ==
    [j \in DOMAIN future_dates |->
        LET yhat == shape.base + shape.trend * (future_dates[j] \div 12)
        IN  [ds |-> future_dates[j],
             yhat |-> yhat,
             yhat_lower |-> yhat - shape.width,
             yhat_upper |-> yhat + shape.width]]

\* the first n rows of a frame
HeadRows(rows, n) == SubSeq(rows, 1, n)

\* line 285, forecast.tail(hours_ahead): the last n rows
TailRows(rows, n) == SubSeq(rows, Len(rows) - n + 1, Len(rows))

\* lines 279-295: the points returned for a fitted forecaster
ProphetForecast(hours_ahead, shape) ==
    LET forecast == ProphetPredict(
                        make_future_dataframe(shape.history, hours_ahead), shape)
        future_forecast == TailRows(forecast, hours_ahead)
    IN  [i \in DOMAIN future_forecast |->
            [timestamp |-> future_forecast[i].ds,
             predicted_value |-> future_forecast[i].yhat,
             lower_bound |-> future_forecast[i].yhat_lower,
             upper_bound |-> future_forecast[i].yhat_upper]]

PredictedValues(points) == [i \in DOMAIN points |-> points[i].predicted_value]

predict_water_levels(m, hours_ahead, shape) ==
    IF m["water_level"] = NoneObj
    THEN [status |-> "error", error |-> "ValueError"]            \* line 274
    ELSE IF m["water_level"] = NewObj
    THEN [status |-> "error", error |-> "Exception"]  \* Prophet: model has not been fit
    ELSE LET points == ProphetForecast(hours_ahead, shape)
         IN  [status |-> "ok", error |-> "",
              predictions |-> points,
              flood_risk |-> _calculate_flood_risk(PredictedValues(points)),
              prediction_hours |-> hours_ahead,
              model_confidence |-> IF Len(points) > 0 THEN "high" ELSE "low"]

Horizons == {-1, 0, 1, 2, DefaultHorizon, MaxHorizon, MaxHorizon + 1, 200}

\* a horizon that is accepted whenever it is positive
ValidHorizonAnyLength(hours_ahead) == hours_ahead >= 1

\* line 631 (hours_ahead is an integer here)
ValidHorizon(hours_ahead) == hours_ahead >= 1 /\ hours_ahead <= MaxHorizon

\* POST /predict/water-levels
PredictWaterLevels ==
    \E hours_ahead \in Horizons, shape \in ForecastShapes :
        /\ result' =
               IF ~ValidHorizon(hours_ahead)
               THEN [op |-> "predict", code |-> 400, hours_ahead |-> hours_ahead,
                     error |-> "Invalid hours_ahead parameter"]
               ELSE LET p == predict_water_levels(models, hours_ahead, shape)
                    IN  [op |-> "predict",
                         code |-> IF p.status = "ok" THEN 200 ELSE 500,
                         hours_ahead |-> hours_ahead,
                         data |-> p]
        /\ UNCHANGED <<models, anomaly_detector, scaler, threat_classifier,
                       classifier_scaler, disk, runCount>>

\* current_data of a flood-risk request: any of 'rainfall' and 'wind', with
\* values on both sides of the limits of lines 763-775
ConditionDomains == SUBSET {"rainfall", "wind"}
ConditionValues == [rainfall |-> {50, 51, 80, 81}, wind |-> {20, 21, 30, 31}]
CurrentData ==
    UNION {{c \in [D -> 0..81] : \A key \in D : c[key] \in ConditionValues[key]} :
           D \in ConditionDomains}

\* the factors with the limits included: a value at a limit falls on the upper
\* side
FactorsAtLimits(current_data) ==
    LET rain == IF "rainfall" \in DOMAIN current_data /\ current_data["rainfall"] >= 50
                THEN <<[factor |-> "heavy_rainfall",
                        severity |-> IF current_data["rainfall"] >= 80
                                     THEN "high" ELSE "medium"]>>
                ELSE <<>>
        wind == IF "wind" \in DOMAIN current_data /\ current_data["wind"] >= 20
                THEN <<[factor |-> "high_winds",
                        severity |-> IF current_data["wind"] >= 30
                                     THEN "high" ELSE "medium"]>>
                ELSE <<>>
    IN  rain \o wind

\* lines 759-777 of predict_flood_risk
AdditionalRiskFactors(current_data) ==
    LET rain == IF "rainfall" \in DOMAIN current_data /\ current_data["rainfall"] > 50
                THEN <<[factor |-> "heavy_rainfall",
                        severity |-> IF current_data["rainfall"] > 80
                                     THEN "high" ELSE "medium"]>>
                ELSE <<>>
        wind == IF "wind" \in DOMAIN current_data /\ current_data["wind"] > 20
                THEN <<[factor |-> "high_winds",
                        severity |-> IF current_data["wind"] > 30
                                     THEN "high" ELSE "medium"]>>
                ELSE <<>>
    IN  rain \o wind

\* the table with an entry for every level: minimal is advised as low is
RecommendationsForEveryLevel(risk) ==
    IF risk.level = "critical"
    THEN <<"Immediate evacuation recommended",
           "Emergency services should be notified",
           "Avoid all coastal areas",
           "Monitor official emergency broadcasts">>
    ELSE IF risk.level = "high"
    THEN <<"Prepare for potential evacuation",
           "Secure outdoor items",
           "Avoid unnecessary travel to coastal areas",
           "Stay informed about weather conditions">>
    ELSE IF risk.level = "medium"
    THEN <<"Monitor weather conditions",
           "Prepare emergency supplies",
           "Stay away from flood-prone areas",
           "Follow local authority guidance">>
    ELSE <<"Normal conditions - no immediate action required",
           "Continue monitoring weather updates",
           "Be aware of changing conditions">>

_generate_recommendations(risk) ==
    IF risk.level = "critical"
    THEN <<"Immediate evacuation recommended",
           "Emergency services should be notified",
           "Avoid all coastal areas",
           "Monitor official emergency broadcasts">>
    ELSE IF risk.level = "high"
    THEN <<"Prepare for potential evacuation",
           "Secure outdoor items",
           "Avoid unnecessary travel to coastal areas",
           "Stay informed about weather conditions">>
    ELSE IF risk.level = "medium"
    THEN <<"Monitor weather conditions",
           "Prepare emergency supplies",
           "Stay away from flood-prone areas",
           "Follow local authority guidance">>
    ELSE IF risk.level = "low"
    THEN <<"Normal conditions - no immediate action required",
           "Continue monitoring weather updates",
           "Be aware of changing conditions">>
    ELSE <<>>

\* Names the body of the route predict_flood_risk can resolve: its locals and
\* the globals of app.py.  The route is a plain function; it has no 'self'.
RouteNames ==
    {"data", "current_data", "water_prediction", "flood_risk",
     "additional_risk_factors", "rainfall", "wind", "overall_risk",
     "request", "jsonify", "datetime", "logger", "ml_service", "app",
     "_calculate_overall_risk", "_generate_recommendations"}

\* predict_flood_risk (lines 744-798): the forecast, the factors, then the
\* aggregation, called as self._calculate_overall_risk(...)
predict_flood_risk(m, current_data, shape) ==
    LET water_prediction == predict_water_levels(m, DefaultHorizon, shape)
        factors == AdditionalRiskFactors(current_data)
    IN  IF water_prediction.status # "ok"
        THEN [op |-> "flood_risk", code |-> 500, error |-> water_prediction.error,
              forecast_made |-> FALSE]
        ELSE IF "self" \notin RouteNames
        THEN [op |-> "flood_risk", code |-> 500, error |-> "NameError",   \* line 780
              forecast_made |-> TRUE]
        ELSE LET overall == _calculate_overall_risk(water_prediction.flood_risk, factors)
             IN  [op |-> "flood_risk", code |-> 200, error |-> "",
                  forecast_made |-> TRUE,
                  data |-> [overall_risk |-> overall,
                            water_level_risk |-> water_prediction.flood_risk,
                            additional_factors |-> factors,
                            recommendations |-> _generate_recommendations(overall)]]

\* POST /predict/flood-risk
PredictFloodRisk ==
    \E current_data \in CurrentData, shape \in ForecastShapes :
        /\ result' = predict_flood_risk(models, current_data, shape)
        /\ UNCHANGED <<models, anomaly_detector, scaler, threat_classifier,
                       classifier_scaler, disk, runCount>>

(***************************************************************************)
(* Concurrent POST /train requests.  The server handles each request on a  *)
(* thread of its own; the route calls ml_service.train_models directly     *)
(* (lines 691-709) and train_models takes no lock.  Every thread sends     *)
(* 50 clean water level points; each step below is one statement that      *)
(* reads or writes the shared ml_service or its directory.                 *)
(***************************************************************************)
Threads == {1, 2}

ThreadsStart ==
    /\ pc = [t \in Threads |-> "idle"]
    /\ run = [t \in Threads |-> 0]

Finish(t, status) ==
    /\ pc' = [pc EXCEPT ![t] = "idle"]
    /\ result' = [op |-> "train", status |-> status, thread |-> t]

\* the route is entered and train_models called
BeginTrain(t) ==
    /\ pc[t] = "idle"
    /\ runCount < MaxRuns
    /\ runCount' = runCount + 1
    /\ run' = [run EXCEPT ![t] = runCount + 1]
    /\ pc' = [pc EXCEPT ![t] = "loop"]
    /\ UNCHANGED <<models, anomaly_detector, scaler, threat_classifier,
                   classifier_scaler, disk, result>>

\* lines 171-188: the sensor type is looked up and its Prophet object fitted
FitForecaster(t) ==
    /\ pc[t] = "loop"
    /\ IF models["water_level"] = NoneObj
       THEN /\ pc' = [pc EXCEPT ![t] = "scale"]
            /\ UNCHANGED <<models, result>>
       ELSE IF models["water_level"].st = "fit"
       THEN /\ Finish(t, "error")
            /\ UNCHANGED models
       ELSE /\ models' = [models EXCEPT !["water_level"] = Fit(run[t])]
            /\ pc' = [pc EXCEPT ![t] = "dump_forecaster"]
            /\ UNCHANGED result
    /\ UNCHANGED <<anomaly_detector, scaler, threat_classifier, classifier_scaler,
                   disk, runCount, run>>

\* line 192: joblib.dump(model, model_file)
DumpForecaster(t) ==
    /\ pc[t] = "dump_forecaster"
    /\ disk' = [disk EXCEPT ![ProphetFile("water_level")] = models["water_level"]]
    /\ pc' = [pc EXCEPT ![t] = "scale"]
    /\ UNCHANGED <<models, anomaly_detector, scaler, threat_classifier,
                   classifier_scaler, runCount, result, run>>

\* line 253: X_scaled = self.scaler.fit_transform(X)
FitScaler(t) ==
    /\ pc[t] = "scale"
    /\ scaler' = Fit(run[t])
    /\ pc' = [pc EXCEPT ![t] = "fit_detector"]
    /\ UNCHANGED <<models, anomaly_detector, threat_classifier, classifier_scaler,
                   disk, runCount, result, run>>

\* line 256: self.anomaly_detector.fit(X_scaled); None raises, which line 267
\* catches, and train_models returns its results
FitDetector(t) ==
    /\ pc[t] = "fit_detector"
    /\ IF anomaly_detector = NoneObj
       THEN /\ Finish(t, "ok")
            /\ UNCHANGED anomaly_detector
       ELSE /\ anomaly_detector' = Fit(run[t])
            /\ pc' = [pc EXCEPT ![t] = "dump_detector"]
            /\ UNCHANGED result
    /\ UNCHANGED <<models, scaler, threat_classifier, classifier_scaler,
                   disk, runCount, run>>

\* line 262: joblib.dump(self.anomaly_detector, anomaly_file)
DumpDetector(t) ==
    /\ pc[t] = "dump_detector"
    /\ disk' = [disk EXCEPT !["anomaly_detector.pkl"] = anomaly_detector]
    /\ pc' = [pc EXCEPT ![t] = "dump_scaler"]
    /\ UNCHANGED <<models, anomaly_detector, scaler, threat_classifier,
                   classifier_scaler, runCount, result, run>>

\* line 263: joblib.dump(self.scaler, scaler_file), then the return
DumpScaler(t) ==
    /\ pc[t] = "dump_scaler"
    /\ disk' = [disk EXCEPT !["scaler.pkl"] = scaler]
    /\ Finish(t, "ok")
    /\ UNCHANGED <<models, anomaly_detector, scaler, threat_classifier,
                   classifier_scaler, runCount, run>>

(***************************************************************************)
(* Model registry: cleanup_old_models of utils/model_persistence.py        *)
(*                                                                         *)
(* The directory holds model files, each with the age in days that its     *)
(* created_at gives (from its .info.json, or from the file's ctime).       *)
(***************************************************************************)
MaxModels == 3      \* model files the directory can hold
MaxAge == 3         \* oldest age, and largest max_age_days, enumerated

ModelNames == 1..MaxModels
NoFile == [exists |-> FALSE, age |-> 0]

RegistryStart ==
    /\ directory = [n \in ModelNames |-> NoFile]
    /\ cleanup = [op |-> "none"]

\* list_saved_models: the names of the model files found
list_saved_models(dir) == {n \in ModelNames : dir[n].exists}

\* save_model writes the file and its .info.json with created_at = now
SaveModel ==
    \E n \in ModelNames :
        /\ directory' = [directory EXCEPT ![n] = [exists |-> TRUE, age |-> 0]]
        /\ cleanup' = [op |-> "save"]

\* a day passes
DayPasses ==
    /\ \A n \in ModelNames : directory[n].age < MaxAge
    /\ directory' = [n \in ModelNames |->
                        IF directory[n].exists
                        THEN [directory[n] EXCEPT !.age = @ + 1]
                        ELSE directory[n]]
    /\ cleanup' = [op |-> "day"]

\* old_models sorted oldest first (lines 310-324), as a sequence of names
RECURSIVE OldestFirst(_, _)
OldestFirst(dir, names) ==
    IF names = {} THEN <<>>
    ELSE LET first == CHOOSE n \in names :
                          \A other \in names :
                              \/ dir[n].age > dir[other].age
                              \/ dir[n].age = dir[other].age /\ n <= other
         IN  <<first>> \o OldestFirst(dir, names \ {first})

\* the loop of lines 327-349 from position i of old_models
RECURSIVE RemoveOld(_, _, _, _, _)
RemoveOld(dir, old_models, i, keep_best, removed_count) ==
    IF i > Len(old_models) THEN [directory |-> dir, removed_count |-> removed_count]
    ELSE IF keep_best /\ Len(old_models) = 1
    THEN [directory |-> dir, removed_count |-> removed_count]      \* break
    ELSE RemoveOld([dir EXCEPT ![old_models[i]] = NoFile], old_models, i + 1,
                   keep_best, removed_count + 1)

cleanup_old_models(dir, max_age_days, keep_best) ==
    LET found == list_saved_models(dir)
        old_models == OldestFirst(dir, {n \in found : dir[n].age > max_age_days})
    IN  IF found = {} THEN [directory |-> dir, removed_count |-> 0]
        ELSE RemoveOld(dir, old_models, 1, keep_best, 0)

CleanupOldModels ==
    \E max_age_days \in 0..MaxAge, keep_best \in BOOLEAN :
        \E done \in {cleanup_old_models(directory, max_age_days, keep_best)} :
            /\ directory' = done.directory
            /\ cleanup' = [op |-> "cleanup",
                           max_age_days |-> max_age_days,
                           keep_best |-> keep_best,
                           before |-> [n \in list_saved_models(directory) |->
                                           directory[n].age],
                           remaining |-> list_saved_models(done.directory),
                           removed_count |-> done.removed_count]

(***************************************************************************)
(* Model registry: save_model, load_model and verify_model_integrity of    *)
(* utils/model_persistence.py on one artifact path.                        *)
(*                                                                         *)
(* A fitted object is its payload, a sequence of bytes; the file that      *)
(* joblib.dump or pickle.dump writes is a header byte followed by the      *)
(* payload.  The optional .metadata.json of save_model is a separate file  *)
(* that neither load_model nor verify_model_integrity reads.               *)
(***************************************************************************)
MaxPayload == 1     \* bytes of a fitted object's payload

Bytes == {0, 1}
Artifacts == [1..MaxPayload -> Bytes]
Extensions == {"joblib", "pkl", "h5", "other"}
Paths == {"given", "returned"}      \* the file_path argument, save_model's result

UnknownHash == 0
MissingFile == [exists |-> FALSE, bytes |-> <<>>]
NoInfo == [exists |-> FALSE, hash |-> UnknownHash]
NoArtifact == [exists |-> FALSE, artifact |-> <<>>]
NotSaving == [pc |-> "idle"]

\* joblib.dump / pickle.dump: the bytes written for a fitted object
Dump(artifact) == <<1>> \o artifact

\* joblib.load / pickle.load: the object read back, or an unpickling error
Undump(bytes) ==
    IF Len(bytes) = 1 + MaxPayload /\ bytes[1] = 1
    THEN [ok |-> TRUE, model |-> Tail(bytes)]
    ELSE [ok |-> FALSE, model |-> <<>>]

\* hashlib.sha256 over the file's bytes: distinct contents, distinct digests
RECURSIVE Sha256(_)
Sha256(bytes) ==
    IF bytes = <<>> THEN 1
    ELSE bytes[1] + 2 * Sha256(Tail(bytes))

\* a digest that only depends on the size of the file
HashOfLength(file) ==
    IF file.exists THEN 1 + Len(file.bytes) ELSE UnknownHash

\* lines 143-155: the digest of the file, "unknown" when it cannot be read
calculate_model_hash(file) ==
    IF file.exists THEN Sha256(file.bytes) ELSE UnknownHash

\* the model file and the info file that a path names: an extension that
\* save_model does not know is replaced by .joblib, so that the path given
\* to save_model names no file
FileAt(st, path) ==
    IF st.ext = "other" /\ path = "given" THEN MissingFile ELSE st.file

InfoAt(st, path) ==
    IF st.ext = "other" /\ path = "given" THEN NoInfo ELSE st.info

\* lines 88-141
load_model(st, path) ==
    IF ~FileAt(st, path).exists
    THEN [op |-> "load", path |-> path, ok |-> FALSE,
          error |-> "FileNotFoundError", model |-> <<>>]
    ELSE LET read == Undump(FileAt(st, path).bytes)
         IN  [op |-> "load", path |-> path, ok |-> read.ok,
              error |-> IF read.ok THEN "" ELSE "UnpicklingError",
              model |-> read.model]

\* lines 157-187
verify_model_integrity(st, path) ==
    LET stored == InfoAt(st, path)
    IN  IF ~stored.exists THEN FALSE
        ELSE IF stored.hash = UnknownHash THEN FALSE
        ELSE stored.hash = calculate_model_hash(FileAt(st, path))

StoreStart ==
    /\ store \in {[ext |-> e, file |-> MissingFile, info |-> NoInfo,
                   last_saved |-> NoArtifact] : e \in Extensions}
    /\ saving = NotSaving
    /\ observed = [op |-> "none"]

StoreIdle ==
    /\ store = <<>>
    /\ saving = <<>>
    /\ observed = <<>>

\* the info file matches the model file
RecordMatches ==
    /\ store.file.exists
    /\ store.info.exists
    /\ store.info.hash = Sha256(store.file.bytes)

\* save_model, lines 29-59: the model file is opened for writing, which
\* empties it; a model without a save method cannot be written as .h5
SaveOpen ==
    \E artifact \in Artifacts :
        /\ saving = NotSaving
        /\ IF store.ext = "h5"
           THEN /\ observed' = [op |-> "save", ok |-> FALSE, error |-> "ValueError"]
                /\ UNCHANGED <<store, saving>>
           ELSE /\ store' = [store EXCEPT !.file = [exists |-> TRUE, bytes |-> <<>>]]
                /\ saving' = [pc |-> "write", artifact |-> artifact,
                              replaces_intact |-> RecordMatches]
                /\ observed' = [op |-> "save_open"]

\* save_model, lines 38, 44, 58: the dump writes the next byte
SaveWrite ==
    /\ saving.pc = "write"
    /\ \E n \in {Len(store.file.bytes) + 1} :
           /\ store' = [store EXCEPT
                           !.file.bytes = Append(@, Dump(saving.artifact)[n])]
           /\ saving' = [saving EXCEPT
                            !.pc = IF n = Len(Dump(saving.artifact))
                                   THEN "info" ELSE "write"]
    /\ observed' = [op |-> "save_write"]

\* save_model, lines 68-82: the hash is computed from the file just written
\* and the info file is written
SaveInfo ==
    /\ saving.pc = "info"
    /\ store' = [store EXCEPT
                    !.info = [exists |-> TRUE,
                              hash |-> calculate_model_hash(store.file)],
                    !.last_saved = [exists |-> TRUE, artifact |-> saving.artifact]]
    /\ saving' = NotSaving
    /\ observed' = [op |-> "save", ok |-> TRUE, error |-> ""]

\* save_model is interrupted: the process dies, or a write raises and
\* lines 84-86 re-raise without undoing what was written
SaveInterrupted ==
    /\ saving.pc \in {"write", "info"}
    /\ saving' = NotSaving
    /\ observed' = [op |-> "save", ok |-> FALSE, error |-> "interrupted"]
    /\ UNCHANGED store

\* one byte of the stored model file is changed
CorruptByte ==
    /\ saving = NotSaving
    /\ store.file.exists
    /\ \E i \in DOMAIN store.file.bytes :
           store' = [store EXCEPT !.file.bytes[i] = 1 - @]
    /\ observed' = [op |-> "corrupt"]
    /\ UNCHANGED saving

\* the stored model file is cut short
TruncateFile ==
    /\ saving = NotSaving
    /\ store.file.exists
    /\ \E n \in 0..(Len(store.file.bytes) - 1) :
           store' = [store EXCEPT !.file.bytes = SubSeq(@, 1, n)]
    /\ observed' = [op |-> "truncate"]
    /\ UNCHANGED saving

LoadModel ==
    \E path \in Paths :
        /\ observed' = load_model(store, path)
        /\ UNCHANGED <<store, saving>>

VerifyModelIntegrity ==
    \E path \in Paths :
        /\ observed' = [op |-> "verify", path |-> path,
                        valid |-> verify_model_integrity(store, path)]
        /\ UNCHANGED <<store, saving>>

(***************************************************************************)
(* Tide prediction service, src/ml-service/app.py.  The module keeps the   *)
(* loaded models in its global 'models' (line 32); lifespan fills it at    *)
(* startup, /predict and /health read it, and /models/reload hands         *)
(* load_all_models to the background tasks of the response.                *)
(***************************************************************************)
TideModelNames == {"linear_regression", "random_forest_components_count", "tide_lstm"}
TideFileStates == {"absent", "readable", "unreadable"}
TideDirs == [TideModelNames -> TideFileStates]

NoTask == [pc |-> "none", listed |-> {}]

TideIdle ==
    /\ tide_dir = <<>>
    /\ tide_models = <<>>
    /\ tide_task = <<>>

\* os.listdir(models_dir) filtered by the ending .joblib (lines 103-104)
JoblibFiles(dir) == {n \in TideModelNames : dir[n] # "absent"}

\* load_all_models: the dictionaries it can return.  load_model raises on a
\* file it cannot read; the except at line 109 ends the loop, and the models
\* loaded before it, in the arbitrary order of os.listdir, are returned.
load_all_models(dir) ==
    LET readable == {n \in TideModelNames : dir[n] = "readable"}
    IN  IF \E n \in TideModelNames : dir[n] = "unreadable"
        THEN SUBSET readable
        ELSE {readable}

\* the background task of line 241 calls load_all_models(); nothing receives
\* its return value, and the function has no 'global models'
BackgroundTaskEffect(current, loaded) == current

\* lifespan startup (lines 39-46): models = load_all_models()
TideStart ==
    /\ tide_dir \in TideDirs
    /\ tide_models \in load_all_models(tide_dir)
    /\ tide_task = NoTask

\* train_tide_models.py saves a model: save_model(model, "models/<name>.joblib")
TideSaveModel ==
    \E n \in {"linear_regression", "random_forest_components_count"} :
        /\ tide_dir' = [tide_dir EXCEPT ![n] = "readable"]
        /\ UNCHANGED <<tide_models, tide_task>>

\* a model file is removed from the directory (cleanup_old_models: os.remove)
TideRemoveModel ==
    \E n \in TideModelNames :
        /\ tide_dir[n] # "absent"
        /\ tide_dir' = [tide_dir EXCEPT ![n] = "absent"]
        /\ UNCHANGED <<tide_models, tide_task>>

\* POST /models/reload: the task is added and the request is answered
ReloadModels ==
    /\ tide_task.pc # "queued"
    /\ tide_task' = [pc |-> "queued", listed |-> {}]
    /\ UNCHANGED <<tide_dir, tide_models>>

\* the background task runs after the response was sent
RunReloadTask ==
    /\ tide_task.pc = "queued"
    /\ \E loaded \in load_all_models(tide_dir) :
           tide_models' = BackgroundTaskEffect(tide_models, loaded)
    /\ tide_task' = [pc |-> "finished", listed |-> JoblibFiles(tide_dir)]
    /\ UNCHANGED tide_dir

\* GET /health
health_check(loaded_models) ==
    [op |-> "health",
     status |-> IF loaded_models # {} THEN "healthy" ELSE "unhealthy",
     models_loaded |-> Cardinality(loaded_models)]

HealthCheck ==
    /\ result' = health_check(tide_models)
    /\ UNCHANGED <<models, anomaly_detector, scaler, threat_classifier,
                   classifier_scaler, disk, runCount, tideVars>>

(***************************************************************************)
(* Specifications.  Each one runs the service (or a part of the            *)
(* repository) under the requests of one concern; the variables of the     *)
(* other parts keep their initial value.                                   *)
(***************************************************************************)
ThreadsIdle == pc = <<>> /\ run = <<>>
RegistryIdle == directory = <<>> /\ cleanup = <<>> /\ StoreIdle /\ TideIdle

\* ---- training of the forecasters and of the anomaly detector
Init == ServiceInit /\ RiskIdle /\ ThreadsIdle /\ RegistryIdle

Next ==
    \/ (Restart /\ UNCHANGED <<riskVars, thrVars, regVars>>)
    \/ (TrainModels /\ UNCHANGED <<riskVars, thrVars, regVars>>)

Spec == Init /\ [][Next]_vars

\* ---- the threat classifier
ClassifierNext ==
    \/ (Restart /\ UNCHANGED <<riskVars, thrVars, regVars>>)
    \/ (TrainThreatClassifier /\ UNCHANGED <<riskVars, thrVars, regVars>>)
    \/ (ClassifyThreatSeverityOn({NoConditions}, {PureLeaf})
            /\ UNCHANGED <<riskVars, thrVars, regVars>>)

SpecClassifier == Init /\ [][ClassifierNext]_vars

\* ---- classification by a service that found a fitted classifier and its
\* scaler in the models directory
SavedClassifierDisk ==
    [EmptyDisk EXCEPT !["threat_classifier.pkl"] = Fit(0),
                      !["classifier_scaler.pkl"] = Fit(0)]

ClassifyInit ==
    /\ disk = SavedClassifierDisk
    /\ models = _initialize_models(disk).models
    /\ anomaly_detector = _initialize_models(disk).anomaly_detector
    /\ scaler = _initialize_models(disk).scaler
    /\ threat_classifier = _initialize_models(disk).threat_classifier
    /\ classifier_scaler = _initialize_models(disk).classifier_scaler
    /\ runCount = 0
    /\ result = [op |-> "startup"]
    /\ RiskIdle /\ ThreadsIdle /\ RegistryIdle

ClassifyNext ==
    \/ (Restart /\ UNCHANGED <<riskVars, thrVars, regVars>>)
    \/ (ClassifyThreatSeverity /\ UNCHANGED <<riskVars, thrVars, regVars>>)

SpecClassify == ClassifyInit /\ [][ClassifyNext]_vars

\* ---- the anomaly detector: requests that reach or miss the 50 pooled rows
AnomalyRequests ==
    {<<[sensor_type |-> s, data |-> c]>> :
        s \in {"water_level", "wind"}, c \in {"dups", "gaps", "full", "inf"}}

DetectNext ==
    \/ (Restart /\ UNCHANGED <<riskVars, thrVars, regVars>>)
    \/ (TrainModelsOn(AnomalyRequests) /\ UNCHANGED <<riskVars, thrVars, regVars>>)
    \/ (DetectAnomalies /\ UNCHANGED <<riskVars, thrVars, regVars>>)

SpecDetect == Init /\ [][DetectNext]_vars

\* ---- the forecast routes: requests that train the water level forecaster
ForecastRequests ==
    {<<[sensor_type |-> "water_level", data |-> c]>> : c \in {"few", "min", "full"}}

ForecastNext ==
    \/ (Restart /\ UNCHANGED <<riskVars, thrVars, regVars>>)
    \/ (TrainModelsOn(ForecastRequests) /\ UNCHANGED <<riskVars, thrVars, regVars>>)
    \/ (PredictWaterLevels /\ UNCHANGED <<riskVars, thrVars, regVars>>)
    \/ (PredictFloodRisk /\ UNCHANGED <<riskVars, thrVars, regVars>>)

SpecForecast == Init /\ [][ForecastNext]_vars

\* ---- the risk pipeline over enumerated forecasts and factor lists
ServiceIdle ==
    /\ disk = EmptyDisk
    /\ models = _initialize_models(EmptyDisk).models
    /\ anomaly_detector = _initialize_models(EmptyDisk).anomaly_detector
    /\ scaler = _initialize_models(EmptyDisk).scaler
    /\ threat_classifier = _initialize_models(EmptyDisk).threat_classifier
    /\ classifier_scaler = _initialize_models(EmptyDisk).classifier_scaler
    /\ runCount = 0
    /\ result = [op |-> "startup"]

RiskInit ==
    /\ predictions \in Forecasts
    /\ additional_factors = <<>>
    /\ flood_risk = PendingFloodRisk
    /\ overall_risk = PendingOverallRisk
    /\ ServiceIdle /\ ThreadsIdle /\ RegistryIdle

RiskNext ==
    \/ (ScoreForecast /\ UNCHANGED <<svcVars, thrVars, regVars>>)
    \/ (AggregateRisk /\ UNCHANGED <<svcVars, thrVars, regVars>>)

SpecRisk == RiskInit /\ [][RiskNext]_vars

(***************************************************************************)
(* CoastalThreatML._prepare_data_for_prophet on a list of points.  A point *)
(* has a timestamp and a value, which may be missing (null); a row of the  *)
(* DataFrame carries as its index the position its point had in the list.  *)
(***************************************************************************)
MaxRows == 3        \* points in the list handed to the feature builder

Timestamps == {1, 2}
PointValues == {1, 2}
Points ==
    [timestamp : Timestamps, value : PointValues, present : {TRUE}]
        \cup [timestamp : Timestamps, value : {0}, present : {FALSE}]
PointLists == SeqsUpTo(Points, MaxRows)

\* the rows of a frame, in order, whose place in it is in the set keep
RECURSIVE SelectRows(_, _, _)
SelectRows(rows, keep, i) ==
    IF i > Len(rows) THEN <<>>
    ELSE (IF i \in keep THEN <<rows[i]>> ELSE <<>>) \o SelectRows(rows, keep, i + 1)

\* pd.DataFrame(data) with the columns renamed (lines 144, 154)
Frame(data) ==
    [i \in DOMAIN data |->
        [ds |-> data[i].timestamp, y |-> data[i].value,
         present |-> data[i].present, index |-> i]]

\* df.sort_values('ds'): the rows in ascending order of ds.  The default sort
\* kind is quicksort, which is not stable: rows of equal ds may come out in
\* any order.
SortOrders(df) ==
    {p \in [DOMAIN df -> DOMAIN df] :
        /\ \A i, j \in DOMAIN df : p[i] = p[j] => i = j
        /\ \A i, j \in DOMAIN df : i < j => df[p[i]].ds <= df[p[j]].ds}

\* df.drop_duplicates(subset=['ds']): keep defaults to 'first'
drop_duplicates(df) ==
    SelectRows(df, {i \in DOMAIN df : \A j \in 1..(i - 1) : df[j].ds # df[i].ds}, 1)

\* df.dropna()
dropna(df) == SelectRows(df, {i \in DOMAIN df : df[i].present}, 1)

\* _prepare_data_for_prophet with the sort putting the rows in the given order
_prepare_data_for_prophet(data, order) ==
    IF data = <<>> THEN <<>>
    ELSE LET df == Frame(data)
             sorted == [i \in DOMAIN df |-> df[order[i]]]
         IN  dropna(drop_duplicates(sorted))

\* the feature builder applied to a list of points
PrepareData ==
    \E data \in PointLists :
        \E order \in SortOrders(Frame(data)) :
            /\ result.op = "startup"
            /\ result' = [op |-> "prepare", data |-> data,
                          df |-> _prepare_data_for_prophet(data, order)]
            /\ UNCHANGED <<models, anomaly_detector, scaler, threat_classifier,
                           classifier_scaler, disk, runCount>>

PrepareInit == ServiceIdle /\ RiskIdle /\ ThreadsIdle /\ RegistryIdle

PrepareNext == PrepareData /\ UNCHANGED <<riskVars, thrVars, regVars>>

SpecPrepare == PrepareInit /\ [][PrepareNext]_vars

\* ---- the loop of detect_anomalies (lines 374-400) on a batch that has a
\* row for the scorer: X of line 375, then the records appended for the rows
\* of df until the loop ends or raises
LongBatches == SeqsUpTo(Readings, MaxBatch + 2)

ScoreBatch ==
    \E sensor_data \in LongBatches :
        \E X \in {ValidRows(sensor_data, 1)} :
        \E loop \in {DetectLoop(sensor_data, X, 1, <<>>)} :
            /\ result.op = "startup"
            /\ Len(X) >= 1                                      \* line 377
            /\ result' = [op |-> "detect_loop",
                          rows |-> Len(sensor_data), X |-> X,
                          raised |-> loop.raised,
                          anomalies |-> loop.anomalies]
            /\ UNCHANGED <<models, anomaly_detector, scaler, threat_classifier,
                           classifier_scaler, disk, runCount>>

ScoreInit == ServiceIdle /\ RiskIdle /\ ThreadsIdle /\ RegistryIdle

ScoreNext == ScoreBatch /\ UNCHANGED <<riskVars, thrVars, regVars>>

SpecScore == ScoreInit /\ [][ScoreNext]_vars

\* ---- the assessment of predict_flood_risk (lines 755-790) applied to a
\* forecast and the current conditions of a request: the verdict of the
\* scorer, the factors derived from the conditions, their aggregation and the
\* recommendations for the aggregated level
ShortForecasts == SeqsUpTo(Levels, 1)

AssessRisk ==
    \E current_data \in CurrentData :
        /\ flood_risk # PendingFloodRisk
        /\ overall_risk = PendingOverallRisk
        /\ \E factors \in {AdditionalRiskFactors(current_data)} :
           \E overall \in {_calculate_overall_risk(flood_risk, factors)} :
              /\ additional_factors' = factors
              /\ overall_risk' = overall
              /\ result' = [op |-> "assessment",
                            current_data |-> current_data,
                            recommendations |-> _generate_recommendations(overall)]
        /\ UNCHANGED <<predictions, flood_risk>>

AssessInit ==
    /\ predictions \in ShortForecasts
    /\ additional_factors = <<>>
    /\ flood_risk = PendingFloodRisk
    /\ overall_risk = PendingOverallRisk
    /\ ServiceIdle /\ ThreadsIdle /\ RegistryIdle

AssessNext ==
    \/ (ScoreForecast /\ UNCHANGED <<svcVars, thrVars, regVars>>)
    \/ (AssessRisk
            /\ UNCHANGED <<models, anomaly_detector, scaler, threat_classifier,
                           classifier_scaler, disk, runCount, thrVars, regVars>>)

SpecAssess == AssessInit /\ [][AssessNext]_vars

\* ---- two request threads in POST /train
ThreadsNext ==
    \E t \in Threads :
        \/ (BeginTrain(t) /\ UNCHANGED <<riskVars, regVars>>)
        \/ (FitForecaster(t) /\ UNCHANGED <<riskVars, regVars>>)
        \/ (DumpForecaster(t) /\ UNCHANGED <<riskVars, regVars>>)
        \/ (FitScaler(t) /\ UNCHANGED <<riskVars, regVars>>)
        \/ (FitDetector(t) /\ UNCHANGED <<riskVars, regVars>>)
        \/ (DumpDetector(t) /\ UNCHANGED <<riskVars, regVars>>)
        \/ (DumpScaler(t) /\ UNCHANGED <<riskVars, regVars>>)

ThreadsInit == ServiceInit /\ RiskIdle /\ ThreadsStart /\ RegistryIdle

SpecThreads == ThreadsInit /\ [][ThreadsNext]_vars

\* ---- the registry directory
RegistryNext ==
    \/ (SaveModel /\ UNCHANGED <<svcVars, riskVars, thrVars, fileVars, tideVars>>)
    \/ (DayPasses /\ UNCHANGED <<svcVars, riskVars, thrVars, fileVars, tideVars>>)
    \/ (CleanupOldModels /\ UNCHANGED <<svcVars, riskVars, thrVars, fileVars, tideVars>>)

RegistryInit ==
    ServiceIdle /\ RiskIdle /\ ThreadsIdle /\ RegistryStart /\ StoreIdle /\ TideIdle

SpecRegistry == RegistryInit /\ [][RegistryNext]_vars

\* ---- one artifact path of the registry
StoreNext ==
    \/ (SaveOpen /\ UNCHANGED <<svcVars, riskVars, thrVars, directory, cleanup, tideVars>>)
    \/ (SaveWrite /\ UNCHANGED <<svcVars, riskVars, thrVars, directory, cleanup, tideVars>>)
    \/ (SaveInfo /\ UNCHANGED <<svcVars, riskVars, thrVars, directory, cleanup, tideVars>>)
    \/ (SaveInterrupted /\ UNCHANGED <<svcVars, riskVars, thrVars, directory, cleanup, tideVars>>)
    \/ (CorruptByte /\ UNCHANGED <<svcVars, riskVars, thrVars, directory, cleanup, tideVars>>)
    \/ (TruncateFile /\ UNCHANGED <<svcVars, riskVars, thrVars, directory, cleanup, tideVars>>)
    \/ (LoadModel /\ UNCHANGED <<svcVars, riskVars, thrVars, directory, cleanup, tideVars>>)
    \/ (VerifyModelIntegrity /\ UNCHANGED <<svcVars, riskVars, thrVars, directory, cleanup, tideVars>>)

StoreInit ==
    /\ ServiceIdle /\ RiskIdle /\ ThreadsIdle
    /\ directory = <<>> /\ cleanup = <<>>
    /\ StoreStart
    /\ TideIdle

SpecStore == StoreInit /\ [][StoreNext]_vars

\* ---- the tide prediction service and its models directory
TideNext ==
    \/ (TideSaveModel /\ UNCHANGED <<svcVars, riskVars, thrVars, directory, cleanup,
                                     fileVars>>)
    \/ (TideRemoveModel /\ UNCHANGED <<svcVars, riskVars, thrVars, directory,
                                       cleanup, fileVars>>)
    \/ (ReloadModels /\ UNCHANGED <<svcVars, riskVars, thrVars, directory, cleanup,
                                    fileVars>>)
    \/ (RunReloadTask /\ UNCHANGED <<svcVars, riskVars, thrVars, directory, cleanup,
                                     fileVars>>)
    \/ (HealthCheck /\ UNCHANGED <<riskVars, thrVars, directory, cleanup, fileVars>>)

TideInit ==
    /\ ServiceIdle /\ RiskIdle /\ ThreadsIdle
    /\ directory = <<>> /\ cleanup = <<>> /\ StoreIdle
    /\ TideStart

SpecTide == TideInit /\ [][TideNext]_vars

(***************************************************************************)
(* Properties                                                              *)
(***************************************************************************)
SomePointAtLeast(level) == \E i \in DOMAIN predictions : predictions[i] >= level

TierRank(risk_level) ==
    CASE risk_level = "minimal" -> 0
      [] risk_level = "low" -> 1
      [] risk_level = "medium" -> 2
      [] risk_level = "high" -> 3
      [] risk_level = "critical" -> 4

\* C1: the Flood Risk Scorer's verdict follows the largest predicted value m:
\* m >= 2.0 critical/95, m >= 1.5 high/85, m >= 1.2 medium/70, m >= 0.8
\* low/60, below that minimal/90 (a value exactly at a threshold belongs to
\* the higher tier); a forecast with a larger maximum never gets a lower
\* tier; the empty forecast is unknown with confidence 0.
C1_FloodRiskTiers ==
    flood_risk # PendingFloodRisk =>
        /\ predictions = <<>> =>
               flood_risk = [risk_level |-> "unknown", confidence |-> 0]
        /\ predictions # <<>> =>
               /\ SomePointAtLeast(20) =>
                      flood_risk.risk_level = "critical" /\ flood_risk.confidence = 95
               /\ SomePointAtLeast(15) /\ ~SomePointAtLeast(20) =>
                      flood_risk.risk_level = "high" /\ flood_risk.confidence = 85
               /\ SomePointAtLeast(12) /\ ~SomePointAtLeast(15) =>
                      flood_risk.risk_level = "medium" /\ flood_risk.confidence = 70
               /\ SomePointAtLeast(8) /\ ~SomePointAtLeast(12) =>
                      flood_risk.risk_level = "low" /\ flood_risk.confidence = 60
               /\ ~SomePointAtLeast(8) =>
                      flood_risk.risk_level = "minimal" /\ flood_risk.confidence = 90
               /\ \A higher \in Levels :
                      ~SomePointAtLeast(higher + 1) =>
                          TierRank(_calculate_flood_risk(<<higher>>).risk_level)
                              >= TierRank(flood_risk.risk_level)

\* a two-point forecast whose maximum is exactly 0.8 m has been scored low
C1_Witness ==
    /\ Len(predictions) = 2
    /\ predictions[1] = 8
    /\ predictions[2] < 8
    /\ flood_risk # PendingFloodRisk
    /\ flood_risk.risk_level = "low"

FactorCount(severity) ==
    Cardinality({i \in DOMAIN additional_factors :
                    additional_factors[i].severity = severity})

\* C2: the Risk Aggregator's score is the base of the water level risk
\* (minimal 1, low 2, medium 3, high 4, critical 5) plus 2 for every factor of
\* severity high and 1 for every factor of severity medium; the level is
\* critical from 7, high from 5, medium from 3, low from 2, else minimal; a
\* critical base without factors scores 5 and is high.
C2_AggregateScore ==
    (overall_risk # PendingOverallRisk /\ flood_risk.risk_level # "unknown") =>
        LET base == CASE flood_risk.risk_level = "minimal" -> 1
                      [] flood_risk.risk_level = "low" -> 2
                      [] flood_risk.risk_level = "medium" -> 3
                      [] flood_risk.risk_level = "high" -> 4
                      [] flood_risk.risk_level = "critical" -> 5
            score == base + 2 * FactorCount("high") + FactorCount("medium")
        IN  /\ overall_risk.score = score
            /\ overall_risk.level =
                   CASE score >= 7 -> "critical"
                     [] score >= 5 /\ score < 7 -> "high"
                     [] score >= 3 /\ score < 5 -> "medium"
                     [] score = 2 -> "low"
                     [] score < 2 -> "minimal"
            /\ (flood_risk.risk_level = "critical" /\ additional_factors = <<>>) =>
                   overall_risk.score = 5 /\ overall_risk.level = "high"

\* a critical water level risk has been aggregated without factors
C2_Witness ==
    /\ overall_risk # PendingOverallRisk
    /\ flood_risk.risk_level = "critical"
    /\ additional_factors = <<>>
    /\ overall_risk.level = "high"

\* C3: a flood-risk request made while a fitted water level forecaster is
\* available answers 200 with the aggregated assessment.
C3_FloodRiskRequestSucceeds ==
    (result.op = "flood_risk" /\ models["water_level"].st = "fit") =>
        result.code = 200

\* C4: classify never fails because the classifier is untrained: a call that
\* finds no fitted classifier bootstraps one and answers.
C4_ClassifyBootstraps ==
    result.op = "classify" =>
        /\ result.status = "ok"
        /\ result.classifier_was.st # "fit" => result.bootstrapped

\* C5: a train request whose every entry holds at least 10 clean points of a
\* known sensor type is answered with a "trained" summary for each of them,
\* and each of these forecasters is then the one this run fitted.
C5_TrainFitsForecaster ==
    (result.op = "train" /\ result.all_eligible) =>
        /\ result.status = "ok"
        /\ result.eligible \subseteq result.results
        /\ \A s \in result.eligible : models[s] = Fit(runCount)

\* C6: a training run that fails at any step leaves every model and scaler,
\* in memory and on disk, as it was before the run.
C6_FailedTrainChangesNothing ==
    [][(result'.op = "train"
          /\ (result'.status = "error" \/ result'.anomaly = "failed"))
         => (Memory' = Memory /\ disk' = disk)]_vars

\* C7: the scaler that detect applies was fitted in the same training run as
\* the outlier scorer it is applied with.
C7_ScalerPairedWithScorer ==
    result.op = "detect" => result.applied.scaler = result.applied.scorer

\* C8: on a trained detector a batch in which some readings have an unknown
\* sensor type or a missing value does not fail.
C8_DetectToleratesBadRows ==
    (/\ result.op = "detect"
     /\ anomaly_detector.st = "fit"
     /\ scaler.st = "fit"
     /\ result.valid_rows < result.rows) =>
        result.status = "ok"

\* positions of train_models between a thread's first update of the shared
\* models and its last file write
Updating == {"dump_forecaster", "fit_detector", "dump_detector", "dump_scaler"}

\* C9: at most one training run is in progress at any time: the updates and
\* file writes of two train calls never interleave.
C9_OneTrainingRunAtATime ==
    \A t1, t2 \in DOMAIN pc :
        (pc[t1] \in Updating /\ pc[t2] \in Updating) => t1 = t2

\* C10: cleanup with keep_best set leaves at least one model in a directory
\* that held one.
C10_CleanupKeepsAModel ==
    (cleanup.op = "cleanup" /\ cleanup.keep_best /\ DOMAIN cleanup.before # {}) =>
        cleanup.remaining # {}

\* the model file holds exactly what the last completed save_model wrote
StoredIntact ==
    /\ store.last_saved.exists
    /\ store.file.exists
    /\ store.file.bytes = Dump(store.last_saved.artifact)

C12_OverwriteIsAtomic ==
    (saving.pc # "idle" /\ saving.replaces_intact) => RecordMatches

\* C13: a forecast request whose horizon is outside 1..168 is answered with
\* the invalid-parameter error (400) and carries no prediction data: the
\* forecaster was not called for it.
C13_HorizonValidated ==
    (result.op = "predict" /\ (result.hours_ahead < 1 \/ result.hours_ahead > 168)) =>
        /\ result.code = 400
        /\ "error" \in DOMAIN result
        /\ "data" \notin DOMAIN result

\* a horizon of 200 hours was refused although the forecaster is fitted
C13_Witness ==
    /\ result.op = "predict"
    /\ result.hours_ahead = 200
    /\ result.code = 400
    /\ models["water_level"].st = "fit"

C15_TooFewPointsFails ==
    (/\ result.op = "train"
     /\ \E s \in result.insufficient : models[s] # NoneObj) =>
        result.status = "error"

\* the anomaly detector, its scaler and their two files
DetectorPair ==
    <<anomaly_detector, scaler, disk["anomaly_detector.pkl"], disk["scaler.pkl"]>>

\* C16: when _train_anomaly_detector finds fewer than 50 pooled rows of known
\* sensor types with a value, it raises nothing and leaves the detector, the
\* scaler and their files as they were; from exactly 50 rows on it goes on to
\* fit, and fits and saves both when the detector exists and the fit succeeds.
C16_SmallPoolIsNoOp ==
    [][(result'.op = "train" /\ result'.anomaly # "not_reached") =>
          /\ result'.status = "ok"
          /\ result'.pooled < 50 =>
                 result'.anomaly = "skipped" /\ DetectorPair' = DetectorPair
          /\ result'.pooled >= 50 => result'.anomaly \in {"trained", "failed"}
          /\ result'.anomaly = "trained" =>
                 /\ anomaly_detector' = Fit(runCount') /\ scaler' = Fit(runCount')
                 /\ disk'["anomaly_detector.pkl"] = Fit(runCount')
                 /\ disk'["scaler.pkl"] = Fit(runCount')]_vars

\* a request with 49 pooled rows was skipped while a fitted detector exists
C16_Witness ==
    /\ result.op = "train"
    /\ result.pooled = 49
    /\ result.anomaly = "skipped"
    /\ anomaly_detector.st = "fit"
    /\ scaler.st = "fit"

\* C17: detect on a detector that was never fitted fails for every batch,
\* the empty one included, and applies neither scaler nor scorer.
C17_UntrainedDetectFails ==
    (result.op = "detect" /\ anomaly_detector.st # "fit") =>
        /\ result.status = "error"
        /\ result.error \in {"ValueError", "AttributeError"}
        /\ result.anomalies = <<>>
        /\ result.applied = NotApplied

\* a batch with a valid reading was refused by a created, unfitted detector
C17_Witness ==
    /\ result.op = "detect"
    /\ anomaly_detector = NewObj
    /\ result.valid_rows >= 1
    /\ result.status = "error"

\* C18: every emitted anomaly record has severity high exactly when its
\* anomaly score is strictly below -0.5, and medium otherwise.
C18_SeverityFollowsScore ==
    result.op = "detect" =>
        \A i \in DOMAIN result.anomalies :
            /\ result.anomalies[i].anomaly_score < 0
            /\ result.anomalies[i].severity = "high"
                   <=> result.anomalies[i].anomaly_score < -5000

\* the feature a clause of the explanation speaks about
ClauseRank(clause) ==
    CASE clause \in {"severe_flooding", "moderate_flood"} -> 1
      [] clause \in {"extreme_wind", "high_wind"} -> 2
      [] clause \in {"heavy_rainfall", "moderate_rainfall"} -> 3
      [] clause = "storm_conditions" -> 4
      [] OTHER -> 0

\* C19: the explanation of a classification follows from the input features
\* alone: water level > 1.5 severe flooding, else > 1.0 moderate; wind > 30
\* extreme, else > 20 high; rainfall > 60 heavy, else > 30 moderate; pressure
\* < 995 storm; at most one clause per feature in the order water, wind,
\* rainfall, pressure; the normal-conditions text iff no rule fires; the
\* input (1.8, 35, 70, 22, 990) yields all four clauses.
C19_ExplanationFromFeatures ==
    (result.op = "classify" /\ result.status = "ok") =>
        \E f \in {result.input_features}, e \in {result.decision_path} :
            LET Has(clause) == \E i \in DOMAIN e : e[i] = clause
            IN  /\ Has("severe_flooding") <=> f.water_level > 15
                /\ Has("moderate_flood") <=> (f.water_level > 10 /\ f.water_level <= 15)
                /\ Has("extreme_wind") <=> f.wind_speed > 30
                /\ Has("high_wind") <=> (f.wind_speed > 20 /\ f.wind_speed <= 30)
                /\ Has("heavy_rainfall") <=> f.rainfall > 60
                /\ Has("moderate_rainfall") <=> (f.rainfall > 30 /\ f.rainfall <= 60)
                /\ Has("storm_conditions") <=> f.pressure < 995
                /\ Has("normal_conditions") <=>
                       (/\ f.water_level <= 10 /\ f.wind_speed <= 20
                        /\ f.rainfall <= 30 /\ f.pressure >= 995)
                /\ Has("normal_conditions") => Len(e) = 1
                /\ \A i, j \in DOMAIN e : i < j => ClauseRank(e[i]) < ClauseRank(e[j])
                /\ (/\ f.water_level = 18 /\ f.wind_speed = 35 /\ f.rainfall = 70
                    /\ f.temperature = 22 /\ f.pressure = 990) =>
                       e = <<"severe_flooding", "extreme_wind", "heavy_rainfall",
                             "storm_conditions">>

\* the input (1.8, 35, 70, 22, 990) was classified and explained by four
\* clauses
C19_Witness ==
    /\ result.op = "classify"
    /\ result.status = "ok"
    /\ result.input_features.water_level = 18
    /\ result.input_features.wind_speed = 35
    /\ result.input_features.rainfall = 70
    /\ result.input_features.pressure = 990
    /\ Len(result.decision_path) = 4

\* C20: the probabilities of a classification sum to 1.0 (1000 thousandths)
\* and the predicted level has the largest of them.
C20_ProbabilitiesSumToOne ==
    (result.op = "classify" /\ result.status = "ok") =>
        \E p \in {result.probabilities} :
            /\ p.low + p.medium + p.high + p.critical = 1000
            /\ \A cls \in DOMAIN p : p[cls] <= p[result.predicted_threat_level]

\* a training of the classifier on fewer than 20 examples
BootstrapTraining(r) ==
    /\ r.op = "train_classifier"
    /\ r.supplied < MinClassifierExamples

\* C21: a training called with fewer than 20 examples (none included) trains
\* on the synthetic dataset of exactly 100 examples for each of low, medium,
\* high and critical, split 320 / 80; and of two successive such trainings,
\* from any prior state of the classifier, the second produces the same
\* dataset, the same split and the same accuracy as the first.
C21_BootstrapDeterministic ==
    [][(runCount' = runCount + 1 /\ BootstrapTraining(result')) =>
          /\ result'.status = "ok"
          /\ result'.answer.synthetic
          /\ result'.answer.dataset.n = 400
          /\ \A l \in ThreatLevels : result'.answer.dataset.per_level[l] = 100
          /\ result'.answer.training_samples = 320
          /\ result'.answer.test_samples = 80
          /\ BootstrapTraining(result) =>
                /\ result'.answer.dataset = result.answer.dataset
                /\ result'.answer.accuracy = result.answer.accuracy
                /\ result'.answer = result.answer]_vars

\* a second training in a row was given some examples, fewer than 20, and
\* trained on the synthetic dataset instead
C21_Witness ==
    /\ BootstrapTraining(result)
    /\ result.supplied > 0
    /\ result.status = "ok"
    /\ result.answer.synthetic
    /\ runCount >= 2
    /\ threat_classifier = Fit(runCount)

\* the orders in which a list of n factors can be given
Orders(n) ==
    {p \in [1..n -> 1..n] : \A i, j \in 1..n : p[i] = p[j] => i = j}

\* C22: the score and level of the aggregator do not depend on the order of
\* the auxiliary factors: every permutation of the same factors gives the
\* same score and level; and changing one factor's severity from medium to
\* high raises the score by exactly 1.
C22_FactorOrderIrrelevant ==
    overall_risk # PendingOverallRisk =>
        /\ \A p \in Orders(Len(additional_factors)) :
              \E permuted \in {[i \in DOMAIN additional_factors |->
                                   additional_factors[p[i]]]} :
              \E risk \in {_calculate_overall_risk(flood_risk, permuted)} :
                  /\ risk.score = overall_risk.score
                  /\ risk.level = overall_risk.level
        /\ \A i \in DOMAIN additional_factors :
              additional_factors[i].severity = "medium" =>
                  _calculate_overall_risk(flood_risk,
                      [additional_factors EXCEPT ![i].severity = "high"]).score
                  = overall_risk.score + 1

\* aggregated: two factors of different severity, the medium one given last
C22_Witness ==
    /\ overall_risk # PendingOverallRisk
    /\ Len(additional_factors) = 2
    /\ additional_factors[1].severity = "high"
    /\ additional_factors[2].severity = "medium"
    /\ overall_risk.score = RiskScoreGet(flood_risk.risk_level) + 3

\* the severities with which the factor of the given name is listed
SeveritiesOf(factors, name) ==
    {factors[i].severity : i \in {j \in DOMAIN factors : factors[j].factor = name}}

\* C23: the auxiliary factors follow from the current conditions alone:
\* rainfall is a factor iff rainfall > 50, high if > 80 and medium otherwise;
\* wind is a factor iff wind > 20, high if > 30 and medium otherwise; values
\* at exactly 50, 80, 20 or 30 fall on the lower side; a condition absent
\* from the request yields no factor.
C23_FactorsFromConditions ==
    result.op = "assessment" =>
        \E c \in {result.current_data} :
            /\ SeveritiesOf(additional_factors, "heavy_rainfall") =
                  IF "rainfall" \notin DOMAIN c \/ c["rainfall"] <= 50 THEN {}
                  ELSE IF c["rainfall"] > 80 THEN {"high"} ELSE {"medium"}
            /\ SeveritiesOf(additional_factors, "high_winds") =
                  IF "wind" \notin DOMAIN c \/ c["wind"] <= 20 THEN {}
                  ELSE IF c["wind"] > 30 THEN {"high"} ELSE {"medium"}
            /\ \A i \in DOMAIN additional_factors :
                  additional_factors[i].factor \in {"heavy_rainfall", "high_winds"}
            /\ Len(additional_factors) =
                  Cardinality({additional_factors[i].factor :
                                  i \in DOMAIN additional_factors})

\* conditions at the limits were assessed: rainfall of exactly 80 is a medium
\* factor and wind of exactly 20 is none
C23_Witness ==
    /\ result.op = "assessment"
    /\ DOMAIN result.current_data = {"rainfall", "wind"}
    /\ result.current_data["rainfall"] = 80
    /\ result.current_data["wind"] = 20
    /\ additional_factors = <<[factor |-> "heavy_rainfall", severity |-> "medium"]>>

\* C24: the recommendations are a fixed function of the final risk level:
\* critical, high, medium and low each have their own fixed ordered list of
\* directives and minimal has the empty list; neither the score nor the
\* factors change the list of a level.
C24_RecommendationsByLevel ==
    result.op = "assessment" =>
        \E level \in {overall_risk.level}, r \in {result.recommendations} :
            /\ level \in {"critical", "high", "medium", "low", "minimal"}
            /\ level = "critical" =>
                  r = <<"Immediate evacuation recommended",
                        "Emergency services should be notified",
                        "Avoid all coastal areas",
                        "Monitor official emergency broadcasts">>
            /\ level = "high" =>
                  r = <<"Prepare for potential evacuation",
                        "Secure outdoor items",
                        "Avoid unnecessary travel to coastal areas",
                        "Stay informed about weather conditions">>
            /\ level = "medium" =>
                  r = <<"Monitor weather conditions",
                        "Prepare emergency supplies",
                        "Stay away from flood-prone areas",
                        "Follow local authority guidance">>
            /\ level = "low" =>
                  r = <<"Normal conditions - no immediate action required",
                        "Continue monitoring weather updates",
                        "Be aware of changing conditions">>
            /\ level = "minimal" => r = <<>>

\* an assessment ended at level minimal with nothing to recommend
C24_Witness ==
    /\ result.op = "assessment"
    /\ overall_risk.level = "minimal"
    /\ predictions # <<>>
    /\ result.recommendations = <<>>

\* C25: when the list holds several points with the same timestamp, the
\* prepared series keeps exactly one row for that timestamp, the last of them
\* in the order of the list; the series is in ascending order of timestamp
\* and has no row with a missing value.
C25_KeepsLastDuplicate ==
    result.op = "prepare" =>
        \E data \in {result.data}, df \in {result.df} :
            /\ \A t \in Timestamps :
                  \E same \in {{i \in DOMAIN data : data[i].timestamp = t}} :
                      Cardinality(same) > 1 =>
                          \E last \in {CHOOSE i \in same : \A j \in same : j <= i} :
                              {df[r].index : r \in {q \in DOMAIN df : df[q].ds = t}}
                                  = {last}
            /\ \A q, r \in DOMAIN df : q < r => df[q].ds < df[r].ds
            /\ \A r \in DOMAIN df : df[r].present

\* C26: no failure of the training pipeline is swallowed: apart from the
\* no-op on too small a pool, an error raised while the anomaly detector is
\* trained reaches the caller of train, so train never reports success when
\* the training of the anomaly detector failed.
C26_DetectorFailurePropagates ==
    (result.op = "train" /\ result.anomaly = "failed") => result.status = "error"

C28_ThresholdExceeded ==
    (flood_risk # PendingFloodRisk /\ predictions # <<>>) =>
        /\ flood_risk.threshold_exceeded <=> SeqMax(predictions) > 8
        /\ SeqMax(predictions) = 8 =>
              flood_risk.risk_level = "low" /\ ~flood_risk.threshold_exceeded
        /\ SeqMax(predictions) # 8 =>
              (flood_risk.threshold_exceeded <=> flood_risk.risk_level # "minimal")

\* a forecast that peaks at exactly 0.8 was scored
C28_Witness ==
    /\ flood_risk # PendingFloodRisk
    /\ Len(predictions) = 2
    /\ predictions[1] = 8
    /\ predictions[2] < 8
    /\ flood_risk.risk_level = "low"

\* C29: a flood risk whose risk_level is outside the ordinal map (the
\* unknown verdict of an empty forecast) is aggregated from base score 1 and
\* its confidence is copied unchanged: with no auxiliary factors the
\* assessment is level minimal, score 1, confidence 0; and the score of every
\* assessment is an integer between 1 and 9.
C29_UnknownVerdictAggregated ==
    result.op = "assessment" =>
        /\ predictions = <<>> => flood_risk.risk_level = "unknown"
        /\ flood_risk.risk_level = "unknown" =>
              /\ overall_risk.score =
                    1 + 2 * FactorCount("high") + FactorCount("medium")
              /\ overall_risk.confidence = 0
              /\ additional_factors = <<>> =>
                    overall_risk = [level |-> "minimal", score |-> 1, confidence |-> 0]
        /\ overall_risk.confidence = flood_risk.confidence
        /\ overall_risk.score \in 1..9

\* the unknown verdict of an empty forecast was aggregated without factors
C29_Witness ==
    /\ result.op = "assessment"
    /\ predictions = <<>>
    /\ flood_risk.risk_level = "unknown"
    /\ additional_factors = <<>>
    /\ overall_risk.level = "minimal"

\* C30: after a /models/reload request was accepted and its background task
\* has finished, the models used by /predict and reported by /health are the
\* .joblib models that were in the models directory when the task listed it:
\* models added or removed since startup are reflected.
C30_ReloadReflectsDirectory ==
    tide_task.pc = "finished" => tide_models = tide_task.listed

====
